---------------------------- MODULE Spec2Model ----------------------------
(***************************************************************************)
(* A model of m2ools: the result cache (m2ools.cache / m2cache.m2cache)    *)
(* and the retry engine (m2ools.retry / m2retry.m2retry).                  *)
(*                                                                         *)
(* Time is counted in ticks; TicksPerSec ticks make one second, so that    *)
(* datetime.now() (microsecond resolution) and the second resolution of    *)
(* the cache file names and of get_dt() differ as they do in the code.     *)
(***************************************************************************)
EXTENDS Integers, Sequences, FiniteSets, TLC

VARIABLES
    \* ---- result cache ----
    hoard,            \* cache(hoard=...)
    reachback,        \* cache(reachback=...), parsed on every lookup
    storage,          \* the files under cachedir: file name -> content
    cache_inventory,  \* wrapper.cache_inventory: fingerprint -> list of entries
    now,              \* datetime.now(), in ticks
    built,            \* the inventory as the startup scan built it
    last,             \* what the last call on the wrapper did
    ncalls,           \* number of calls made on the wrapper
    \* ---- retry engine ----
    policy,           \* the arguments given to retry(...)
    eff,              \* the policy after validation and normalisation
    rpc,              \* where the retry wrapper is
    rcall,            \* the arguments of the execute call in progress
    remaining_tries,  \* wrapper's local
    failcount,        \* wrapper's local
    time_to_wait,     \* wrapper's local: the time last slept
    rlog,             \* what the execute call in progress has done so far
    routcome,         \* how the last execute call ended
    execs,            \* number of execute calls started
    \* ---- jitter ----
    jval,             \* get_jittered(val, ...)
    jfactor,          \* get_jittered(..., jitterfactor)
    jpc,              \* where get_jitter is
    jdraw,            \* jitter_amount: the last random.gauss draw
    jdraws,           \* number of draws made
    jresult,          \* what get_jittered returned or raised
    \* ---- fingerprint ----
    fcalls,           \* the calls to fingerprint
    fhashed,          \* their func_sig_hashed, once computed
    \* ---- reachback parser ----
    preachback,       \* get_dt(reachback): the string given
    pnow,             \* datetime.now() as get_dt reads it
    ppc,              \* "new" before get_dt ran, "done" after
    presult,          \* what get_dt returned or raised
    \* ---- cache wrappers of several processes on one cachedir ----
    inventories,      \* wrapper.cache_inventory of each process
    wreachback,       \* cache(reachback=...) of each process
    wpc,              \* the statement of cache.wrapper each process is at
    wcall,            \* the locals of the call each process is in
    wlast,            \* what the last call of each process did
    creator,          \* which process wrote a file of storage
    wcalls,           \* number of calls made on the wrapper of each process
    \* ---- jitterargs ----
    jitterfactors,    \* wrapper.jitterfactors
    aargs,            \* args of the call of the wrapper
    akwargs,          \* kwargs of the call, in the order written
    apc,              \* "new" before the call, "called" once func was called
    newargs,          \* the positional arguments func was called with
    newkwargs         \* the keyword arguments func was called with

cvars == <<hoard, reachback, storage, cache_inventory, now, built, last, ncalls>>
rvars == <<policy, eff, rpc, rcall, remaining_tries, failcount, time_to_wait, rlog,
          routcome, execs>>
jvars == <<jval, jfactor, jpc, jdraw, jdraws, jresult>>
fvars == <<fcalls, fhashed>>
pvars == <<preachback, pnow, ppc, presult>>
wvars == <<inventories, wreachback, wpc, wcall, wlast, creator, wcalls>>
avars == <<jitterfactors, aargs, akwargs, apc, newargs, newkwargs>>
vars == <<cvars, rvars, jvars, fvars, pvars, wvars, avars>>

----------------------------------------------------------------------------
(* Bounds of the model *)

\* ticks per second (datetime.now() is finer than the file name's %H%M%S)
TicksPerSec == 2
\* the clock runs from StartTime up to MaxTime ticks
MaxTime == 4
\* calls made on one cache wrapper
MaxCalls == 3
\* files found by the startup scan
MaxInitFiles == 2

----------------------------------------------------------------------------
(* Python values *)

\* a value is tagged with its type; a number is the rational n/d (floats are
\* modelled as exact rationals), a str carries its text
PyInt(k) == [t |-> "int", n |-> k, d |-> 1, s |-> ""]
PyFloat(n, d) == [t |-> "float", n |-> n, d |-> d, s |-> ""]
PyBool(b) == [t |-> "bool", n |-> IF b THEN 1 ELSE 0, d |-> 1, s |-> ""]
PyStr(x) == [t |-> "str", n |-> 0, d |-> 1, s |-> x]
PyNone == [t |-> "NoneType", n |-> 0, d |-> 1, s |-> ""]
PyFunction == [t |-> "function", n |-> 0, d |-> 1, s |-> ""]

\* isinstance(v, int): bool is a subclass of int
IsInstanceInt(v) == v.t \in {"int", "bool"}
\* isinstance(v, (int, float))
IsInstanceIntFloat(v) == v.t \in {"int", "bool", "float"}
\* isinstance(v, bool)
IsInstanceBool(v) == v.t = "bool"
\* callable(v)
Callable(v) == v.t = "function"
\* v < k, v > k, v == k for a number v and an integer k
NumLt(v, k) == v.n < k * v.d
NumGt(v, k) == v.n > k * v.d
NumEq(v, k) == v.n = k * v.d
\* bool(v) for a number
Truthy(v) == v.n # 0

\* sub in s
Contains(s, sub) ==
    \E i \in 1..(Len(s) - Len(sub) + 1) : SubSeq(s, i, i + Len(sub) - 1) = sub

\* repr of a str: a backslash and the quote in use are escaped
RECURSIVE Escape(_, _)
Escape(s, quote) ==
    IF Len(s) = 0 THEN ""
    ELSE LET c == SubSeq(s, 1, 1)
         IN  (IF c = quote \/ c = "\\" THEN "\\" \o c ELSE c)
                \o Escape(SubSeq(s, 2, Len(s)), quote)
\* repr of a str: single quotes, unless the text has a single quote and no
\* double quote
ReprStr(s) ==
    IF Contains(s, "'") /\ ~ Contains(s, "\"")
    THEN "\"" \o Escape(s, "\"") \o "\""
    ELSE "'" \o Escape(s, "'") \o "'"
\* abs(x)
Abs(x) == IF x < 0 THEN -x ELSE x
\* repr of a float n/d (the floats of the model are whole or halves)
ReprFloat(n, d) ==
    LET whole == Abs(n) \div d
        rest == Abs(n) % d
    IN  (IF n < 0 THEN "-" ELSE "") \o ToString(whole) \o "."
           \o (IF rest = 0 THEN "0" ELSE IF 2 * rest = d THEN "5" ELSE ToString(rest) \o "/" \o ToString(d))

\* a repr that puts the text of a str between single quotes as it is
ReprPlainQuotes(v) ==
    IF v.t = "str" THEN "'" \o v.s \o "'"
    ELSE IF v.t = "float" THEN ReprFloat(v.n, v.d)
    ELSE IF v.t = "bool" THEN (IF v.n = 1 THEN "True" ELSE "False")
    ELSE IF v.t = "NoneType" THEN "None"
    ELSE ToString(v.n)
\* repr(v)
Repr(v) ==
    IF v.t = "str" THEN ReprStr(v.s)
    ELSE IF v.t = "float" THEN ReprFloat(v.n, v.d)
    ELSE IF v.t = "bool" THEN (IF v.n = 1 THEN "True" ELSE "False")
    ELSE IF v.t = "NoneType" THEN "None"
    ELSE ToString(v.n)
\* str(v): a str prints itself
Str(v) == IF v.t = "str" THEN v.s ELSE Repr(v)

\* ', '.join(parts)
RECURSIVE Join(_)
Join(parts) ==
    IF Len(parts) = 0 THEN ""
    ELSE IF Len(parts) = 1 THEN parts[1]
    ELSE parts[1] \o ", " \o Join(Tail(parts))

\* the calls made on a wrapped function: positional args and keyword args
\* (a keyword argument is <<key, value>>, in call order)
Calls ==
    { [args |-> <<PyInt(1)>>, kwargs |-> <<>>],
      [args |-> <<PyStr("1")>>, kwargs |-> <<>>],
      [args |-> <<PyInt(1), PyInt(2)>>, kwargs |-> << <<"a", PyInt(3)>> >>] }

\* func.__name__
FuncName == "f"

----------------------------------------------------------------------------
(* Result cache *)

\* the values the wrapped function returns; "df" is a pandas DataFrame,
\* "empty" an empty list
None == "None"
Results == {None, "obj", "empty", "df"}
IsDataFrame(r) == r = "df"

CACHE_DIR == "cache"

\* get_func_sig_hashed: sha1 of the canonical text, the digest taken to be
\* collision free, so that the text stands for its digest
GetFuncSigHashed(name, args, kwargs) ==
    LET argslist == [i \in 1..Len(args) |-> Repr(args[i])]
        kwargslist == [i \in 1..Len(kwargs) |-> kwargs[i][1] \o "=" \o Repr(kwargs[i][2])]
        allargs == Join(argslist \o kwargslist)
    IN  name \o "(" \o allargs \o ")"

Fingerprints == { GetFuncSigHashed(FuncName, c.args, c.kwargs) : c \in Calls }

\* dt.strftime('_%Y-%m-%d_%H%M%S'): the microseconds are dropped
Strftime(dt) == dt \div TicksPerSec
\* datetime.strptime(timestamp, '%Y-%m-%d_%H%M%S')
Strptime(sec) == sec * TicksPerSec

\* a file under cachedir
File(dir, name, fp, sec, ext) ==
    [dir |-> dir, name |-> name, fp |-> fp, sec |-> sec, ext |-> ext]

\* cachefilename_re.match(filename): the name starts with func_name and ends
\* in .csv or .pkl
MatchesCacheFileName(file, func_name) ==
    file.name = func_name /\ file.ext \in {"csv", "pkl"}

\* all orders of a finite set, as sequences
Orderings(S) ==
    { q \in [1..Cardinality(S) -> S] : \A i, j \in DOMAIN q : i # j => q[i] # q[j] }

\* get_cache_inventory: the matching files grouped by fingerprint; `order`
\* is the order in which os.walk yields the files
GetCacheInventory(order, func_name) ==
    LET matching == SelectSeq(order, LAMBDA f : MatchesCacheFileName(f, func_name))
        keys == { matching[i].fp : i \in DOMAIN matching }
        Entry(f) == [dt |-> Strptime(f.sec), cachefilename |-> f]
        OfKey(k) == SelectSeq(matching, LAMBDA f : f.fp = k)
    IN  [k \in keys |-> [i \in 1..Len(OfKey(k)) |-> Entry(OfKey(k)[i])]]

\* a reachback specification: an absolute date (kind "abs", v its second), a
\* relative duration (kind "rel", v seconds ago), or a text that neither
\* datetime_re nor customtimedelta_re matches (kind "malformed")
Reachback(kind, v) == [kind |-> kind, v |-> v]
\* datetime.min.strftime('%Y-%m-%d'), the default
DefaultReachback == Reachback("abs", 0)

\* get_dt: when neither pattern matches, dt_args is never bound and the
\* return statement raises UnboundLocalError
GetDtRaises(rb) == rb.kind = "malformed"

\* a get_dt that takes every specification for "now"
GetDtNow(rb, t) == Strptime(Strftime(t))
\* get_dt: an absolute date is the date given; a relative one is now minus
\* the duration, rebuilt from year .. second, so without its microseconds
GetDt(rb, t) ==
    IF rb.kind = "abs" THEN Strptime(rb.v)
    ELSE Strptime(Strftime(t - rb.v * TicksPerSec))

\* pickle.dump / DataFrame.to_csv and pickle.load / pd.read_csv
PickleDump(result) == [fmt |-> "pickle", data |-> result]
ToCsv(result) == [fmt |-> "csv", data |-> result]
PickleLoad(content) == content.data
ReadCsv(content) == content.data

\* to_cache: the file is named after the second of datetime.now() and written
\* (an existing file of that name is overwritten)
ToCache(stor, result, cachedir, func_name, fp, t) ==
    LET ext == IF IsDataFrame(result) THEN "csv" ELSE "pkl"
        cachefilename == File(cachedir, func_name, fp, Strftime(t), ext)
        content == IF IsDataFrame(result) THEN ToCsv(result) ELSE PickleDump(result)
    IN  [dt |-> t,
         cachefilename |-> cachefilename,
         storage |-> [f \in DOMAIN stor \cup {cachefilename} |->
                         IF f = cachefilename THEN content ELSE stor[f]]]

\* from_cache: dispatch on the extension
FromCache(stor, cachefilename) ==
    IF cachefilename.ext = "csv" THEN ReadCsv(stor[cachefilename])
    ELSE PickleLoad(stor[cachefilename])

\* max(entries, key=lambda d: d['dt']): the first entry with the greatest dt
MostRecent(entries) ==
    LET best == CHOOSE i \in DOMAIN entries :
                    /\ \A j \in DOMAIN entries : entries[j].dt <= entries[i].dt
                    /\ \A j \in 1..(i - 1) : entries[j].dt < entries[i].dt
    IN  entries[best]

\* a lookup that takes an entry created exactly at the cutoff for stale
IsFreshStrict(entries, cutoff) == MostRecent(entries).dt > cutoff
\* max(...)['dt'] >= get_dt(reachback)
IsFresh(entries, cutoff) == MostRecent(entries).dt >= cutoff

\* a wrapper that caches whatever func returns
IsNotNoneAlways(result) == TRUE
\* (result := func(*args, **kwargs)) is not None
IsNotNone(result) == result # None

\* for file in stale_files: os.remove(file) -- os.remove raises on a file that
\* is not there, which ends the loop
RECURSIVE RemoveStale(_, _, _)
RemoveStale(stor, stale, removed) ==
    IF Len(stale) = 0 THEN [storage |-> stor, ok |-> TRUE, removed |-> removed]
    ELSE IF Head(stale) \notin DOMAIN stor
         THEN [storage |-> stor, ok |-> FALSE, removed |-> removed]
    ELSE RemoveStale([f \in DOMAIN stor \ {Head(stale)} |-> stor[f]],
                     Tail(stale), removed \cup {Head(stale)})

\* an append that is lost also when the key is there
GetAppendLost(inv, fp, entry) == inv

\* wrapper.cache_inventory.get(fp, []).append(entry): without the key the
\* entry goes to a list that is dropped
GetAppend(inv, fp, entry) ==
    IF fp \in DOMAIN inv THEN [inv EXCEPT ![fp] = Append(@, entry)] ELSE inv

\* wrapper.cache_inventory[fp] = []
SetEmpty(inv, fp) == [k \in DOMAIN inv \cup {fp} |-> IF k = fp THEN <<>> ELSE inv[k]]

NoFile == File("", "", "", 0, "")

\* what one call did
CallRecord(fp, t, cutoff, kind, invoked, result, file, removed) ==
    [fp |-> fp, t |-> t, cutoff |-> cutoff, kind |-> kind, invoked |-> invoked,
     result |-> result, file |-> file, removed |-> removed]

\* before the first call
NoRecord == CallRecord("", 0, 0, "", 0, "", NoFile, {})

\* the calls made on the cache wrapper
CacheCalls ==
    { [args |-> <<PyInt(1)>>, kwargs |-> <<>>],
      [args |-> <<PyStr("1")>>, kwargs |-> <<>>] }

\* a wrapper that on a hit keeps only the newest file of the fingerprint
CacheWrapperPruneOnHit(call, res) ==
    LET fp == GetFuncSigHashed(FuncName, call.args, call.kwargs)
        cutoff == IF GetDtRaises(reachback) THEN 0 ELSE GetDt(reachback, now)
        isHit == /\ fp \in DOMAIN cache_inventory
                 /\ IsFresh(cache_inventory[fp], cutoff)
    IN  /\ ncalls < MaxCalls
        /\ ncalls' = ncalls + 1
        /\ IF fp \in DOMAIN cache_inventory /\ GetDtRaises(reachback)
           THEN /\ UNCHANGED <<storage, cache_inventory>>
                /\ last' = (CallRecord(fp, now, cutoff, "reachback_error", 0,
                                       "UnboundLocalError", NoFile, {}))
           ELSE IF isHit
           THEN LET cachefilename == MostRecent(cache_inventory[fp]).cachefilename
                IN  /\ storage' = [f \in {g \in DOMAIN storage : g.fp # fp \/ g = cachefilename} |->
                                    storage[f]]
                    /\ cache_inventory' = [cache_inventory EXCEPT ![fp] =
                                              <<MostRecent(cache_inventory[fp])>>]
                    /\ last' = (IF cachefilename \in DOMAIN storage
                          THEN CallRecord(fp, now, cutoff, "hit", 0,
                                          FromCache(storage, cachefilename), cachefilename, {})
                          ELSE CallRecord(fp, now, cutoff, "load_error", 0,
                                          "FileNotFoundError", cachefilename, {}))
           ELSE IF IsNotNone(res)
           THEN LET w == ToCache(storage, res, CACHE_DIR, FuncName, fp, now)
                    stale == IF fp \in DOMAIN cache_inventory
                             THEN [i \in DOMAIN cache_inventory[fp] |->
                                      cache_inventory[fp][i].cachefilename]
                             ELSE <<>>
                    rm == RemoveStale(w.storage, stale, {})
                    entry == [dt |-> w.dt, cachefilename |-> w.cachefilename]
                IN  IF hoard
                    THEN /\ storage' = w.storage
                         /\ cache_inventory' = GetAppend(cache_inventory, fp, entry)
                         /\ last' = (CallRecord(fp, now, cutoff, "write", 1, res, w.cachefilename, {}))
                    ELSE IF rm.ok
                    THEN /\ storage' = rm.storage
                         /\ cache_inventory' = GetAppend(SetEmpty(cache_inventory, fp), fp, entry)
                         /\ last' = (CallRecord(fp, now, cutoff, "write", 1, res, w.cachefilename, rm.removed))
                    ELSE /\ storage' = rm.storage
                         /\ UNCHANGED cache_inventory
                         /\ last' = (CallRecord(fp, now, cutoff, "remove_error", 1,
                                          "FileNotFoundError", w.cachefilename, rm.removed))
           ELSE /\ UNCHANGED <<storage, cache_inventory>>
                /\ last' = (CallRecord(fp, now, cutoff, "none", 1, None, NoFile, {}))
        /\ UNCHANGED <<hoard, reachback, now, built, rvars, jvars, fvars, pvars, wvars, avars>>

\* cache.wrapper: one call of the wrapped function; `res` is what func returns
\* if it is invoked. get_dt(reachback) is evaluated only when the fingerprint
\* is in the inventory (the right operand of `and`); the record of a call
\* holds 0 for a cutoff that get_dt did not return
CacheWrapper(call, res) ==
    LET fp == GetFuncSigHashed(FuncName, call.args, call.kwargs)
        cutoff == IF GetDtRaises(reachback) THEN 0 ELSE GetDt(reachback, now)
        isHit == /\ fp \in DOMAIN cache_inventory
                 /\ IsFresh(cache_inventory[fp], cutoff)
    IN  /\ ncalls < MaxCalls
        /\ ncalls' = ncalls + 1
        /\ IF fp \in DOMAIN cache_inventory /\ GetDtRaises(reachback)
           THEN /\ UNCHANGED <<storage, cache_inventory>>
                /\ last' = (CallRecord(fp, now, cutoff, "reachback_error", 0,
                                       "UnboundLocalError", NoFile, {}))
           ELSE IF isHit
           THEN LET cachefilename == MostRecent(cache_inventory[fp]).cachefilename
                IN  /\ UNCHANGED <<storage, cache_inventory>>
                    /\ last' = (IF cachefilename \in DOMAIN storage
                          THEN CallRecord(fp, now, cutoff, "hit", 0,
                                          FromCache(storage, cachefilename), cachefilename, {})
                          ELSE CallRecord(fp, now, cutoff, "load_error", 0,
                                          "FileNotFoundError", cachefilename, {}))
           ELSE IF IsNotNone(res)
           THEN LET w == ToCache(storage, res, CACHE_DIR, FuncName, fp, now)
                    stale == IF fp \in DOMAIN cache_inventory
                             THEN [i \in DOMAIN cache_inventory[fp] |->
                                      cache_inventory[fp][i].cachefilename]
                             ELSE <<>>
                    rm == RemoveStale(w.storage, stale, {})
                    entry == [dt |-> w.dt, cachefilename |-> w.cachefilename]
                IN  IF hoard
                    THEN /\ storage' = w.storage
                         /\ cache_inventory' = GetAppend(cache_inventory, fp, entry)
                         /\ last' = (CallRecord(fp, now, cutoff, "write", 1, res, w.cachefilename, {}))
                    ELSE IF rm.ok
                    THEN /\ storage' = rm.storage
                         /\ cache_inventory' = GetAppend(SetEmpty(cache_inventory, fp), fp, entry)
                         /\ last' = (CallRecord(fp, now, cutoff, "write", 1, res, w.cachefilename, rm.removed))
                    ELSE /\ storage' = rm.storage
                         /\ UNCHANGED cache_inventory
                         /\ last' = (CallRecord(fp, now, cutoff, "remove_error", 1,
                                          "FileNotFoundError", w.cachefilename, rm.removed))
           ELSE /\ UNCHANGED <<storage, cache_inventory>>
                /\ last' = (CallRecord(fp, now, cutoff, "none", 1, None, NoFile, {}))
        /\ UNCHANGED <<hoard, reachback, now, built, rvars, jvars, fvars, pvars, wvars, avars>>

\* time passes between calls
Tick ==
    /\ now < MaxTime
    /\ now' = now + 1
    /\ UNCHANGED <<hoard, reachback, storage, cache_inventory, built, last, ncalls, rvars, jvars, fvars, pvars, wvars, avars>>

\* the calls fingerprinted: names, positional arguments (up to MaxArgs) and
\* keyword arguments (each key once, in any order)
MaxArgs == 2
FuncNames == {"f", "g"}
ArgValues == {PyInt(1), PyStr("1"), PyStr("1', '1")}
KwargKeys == {"a", "b"}
KwargValues == {PyInt(1), PyStr("1")}
ArgLists == UNION { [1..n -> ArgValues] : n \in 0..MaxArgs }
KwargLists ==
    { kw \in UNION { [1..n -> KwargKeys \X KwargValues] : n \in 0..Cardinality(KwargKeys) } :
        \A i, j \in DOMAIN kw : i # j => kw[i][1] # kw[j][1] }
Signature(name, args, kwargs) == [name |-> name, args |-> args, kwargs |-> kwargs]
Signatures ==
    { Signature(name, args, kwargs) :
        name \in FuncNames, args \in ArgLists, kwargs \in KwargLists }

\* get_func_sig_hashed is applied to each of the calls
FingerprintCompute ==
    /\ fhashed = <<>>
    /\ fhashed' = [i \in DOMAIN fcalls |->
                      GetFuncSigHashed(fcalls[i].name, fcalls[i].args, fcalls[i].kwargs)]
    /\ UNCHANGED <<fcalls, cvars, rvars, jvars, pvars, wvars, avars>>

----------------------------------------------------------------------------
(* Jitter *)

JITTER_SIGMA_COUNT == 4
\* random.gauss draws are taken from a grid: JitterGrid steps from 0 to the
\* cropping limit, and one step beyond it on either side
JitterGrid == 2

\* plain rationals n/d, d > 0
Num(n, d) == [n |-> n, d |-> d]
RECURSIVE Pow(_, _)
Pow(b, e) == IF e = 0 THEN 1 ELSE b * Pow(b, e - 1)
NumAdd(a, b) == Num(a.n * b.d + b.n * a.d, a.d * b.d)
NumMul(a, b) == Num(a.n * b.n, a.d * b.d)
NumPow(a, e) == Num(Pow(a.n, e), Pow(a.d, e))
NumLess(a, b) == a.n * b.d < b.n * a.d
NumSame(a, b) == a.n * b.d = b.n * a.d

\* a loop that keeps a draw on the cropping limit
ResampleBeyond(jitter_amount, limit) ==
    NumLess(limit, Num(Abs(jitter_amount.n), jitter_amount.d))
\* while abs(jitter_amount) >= std * JITTER_SIGMA_COUNT: draw again
Resample(jitter_amount, limit) ==
    ~ NumLess(Num(Abs(jitter_amount.n), jitter_amount.d), limit)

\* random.gauss(mean, std): the draws, as fractions of the cropping limit
Gauss(limit) ==
    { Num(m * limit.n, limit.d * JitterGrid) : m \in (-(JitterGrid + 1))..(JitterGrid + 1) }

\* a get_jitter whose loop is missing: the first draw is returned, cropped or not
GetJitterUncropped(val, jitterfactor) ==
    IF val.n = 0 THEN {Num(0, 1)}
    ELSE IF jitterfactor.n = 0 THEN {Num(0, 1)}
    ELSE Gauss(Num(Abs(val.n) * jitterfactor.n, val.d * jitterfactor.d))

\* get_jitter: the values the rejection loop can return for val and
\* jitterfactor (both already checked to be numbers, jitterfactor >= 0)
GetJitter(val, jitterfactor) ==
    IF val.n = 0 THEN {Num(0, 1)}
    ELSE IF jitterfactor.n = 0 THEN {Num(0, 1)}
    ELSE LET base_value == Num(Abs(val.n), val.d)
             std == Num(base_value.n * jitterfactor.n,
                        base_value.d * jitterfactor.d * JITTER_SIGMA_COUNT)
             limit == Num(std.n * JITTER_SIGMA_COUNT, std.d)
         IN  { jitter_amount \in Gauss(limit) : ~ Resample(jitter_amount, limit) }

\* get_jittered
GetJittered(val, jitterfactor) ==
    { NumAdd(val, j) : j \in GetJitter(val, jitterfactor) }

\* draws made by one call of get_jitter
MaxDraws == 3

\* checks that look at jitterfactor before val
GetJitterChecksFactorFirst(val, jitterfactor) ==
    IF ~ IsInstanceIntFloat(jitterfactor) THEN "TypeError"
    ELSE IF NumLt(jitterfactor, 0) THEN "ValueError"
    ELSE IF ~ IsInstanceIntFloat(val) THEN "TypeError"
    ELSE IF NumEq(val, 0) \/ NumEq(jitterfactor, 0) THEN "zero"
    ELSE "sample"
\* the head of get_jitter, in its order: val is looked at first, and a val of
\* 0 returns 0 before jitterfactor is looked at
GetJitterChecks(val, jitterfactor) ==
    IF ~ IsInstanceIntFloat(val) THEN "TypeError"
    ELSE IF NumEq(val, 0) THEN "zero"
    ELSE IF ~ IsInstanceIntFloat(jitterfactor) THEN "TypeError"
    ELSE IF NumLt(jitterfactor, 0) THEN "ValueError"
    ELSE IF NumEq(jitterfactor, 0) THEN "zero"
    ELSE "sample"

\* std * JITTER_SIGMA_COUNT, with std = abs(val) * jitterfactor / JITTER_SIGMA_COUNT
JitterLimit(val, jitterfactor) ==
    LET base_value == Num(Abs(val.n), val.d)
        std == Num(base_value.n * jitterfactor.n,
                   base_value.d * jitterfactor.d * JITTER_SIGMA_COUNT)
    IN  Num(std.n * JITTER_SIGMA_COUNT, std.d)

\* what get_jittered(val, jitterfactor) ends with
JitterOutcome(kind, value) == [kind |-> kind, value |-> value]
NoJitterOutcome == JitterOutcome("none", Num(0, 1))

\* the arguments given to get_jittered
JitterVals == {PyInt(0), PyInt(2), PyInt(-2), PyFloat(1, 2), PyStr("2"), PyNone}
JitterFactors == {PyInt(0), PyFloat(1, 2), PyInt(1), PyInt(2), PyInt(-1), PyStr("1")}

\* get_jittered(val, jitterfactor) is entered: get_jitter up to its loop;
\* when get_jitter returns 0 the result is val + 0
JitterCall ==
    /\ jpc = "new"
    /\ LET checked == GetJitterChecks(jval, jfactor)
       IN  IF checked = "zero"
           THEN /\ jpc' = "returned"
                /\ jresult' = JitterOutcome("value", NumAdd(Num(jval.n, jval.d), Num(0, 1)))
           ELSE IF checked = "sample"
           THEN /\ jpc' = "sampling"
                /\ UNCHANGED jresult
           ELSE /\ jpc' = "raised"
                /\ jresult' = JitterOutcome(checked, Num(0, 1))
    /\ UNCHANGED <<jval, jfactor, jdraw, jdraws, cvars, rvars, fvars, pvars, wvars, avars>>

\* one pass of the while loop: a draw, kept or thrown away; a kept draw is
\* returned and get_jittered returns val + jitter
JitterDraw ==
    /\ jpc = "sampling"
    /\ jdraws < MaxDraws
    /\ \E jitter_amount \in Gauss(JitterLimit(jval, jfactor)) :
          /\ jdraw' = jitter_amount
          /\ jdraws' = jdraws + 1
          /\ IF Resample(jitter_amount, JitterLimit(jval, jfactor))
             THEN /\ jpc' = "sampling"
                  /\ UNCHANGED jresult
             ELSE /\ jpc' = "returned"
                  /\ jresult' = JitterOutcome("value", NumAdd(Num(jval.n, jval.d), jitter_amount))
    /\ UNCHANGED <<jval, jfactor, cvars, rvars, fvars, pvars, wvars, avars>>

----------------------------------------------------------------------------
(* Retry engine *)

\* the largest maxtries given to retry(...)
MaxTries == 3
\* execute calls made on one retry wrapper
MaxExecs == 2

\* the arguments given to retry(...)
Policy(validator, maxtries, delay, jitterfactor, backoff, boexpbase, borandom) ==
    [validator |-> validator, maxtries |-> maxtries, delay |-> delay,
     jitterfactor |-> jitterfactor, backoff |-> backoff, boexpbase |-> boexpbase,
     borandom |-> borandom]

\* checks that look at boexpbase only when backoff is on
RetryValidateLax(p) ==
    IF ~ Callable(p.validator) THEN "TypeError"
    ELSE IF ~ IsInstanceInt(p.maxtries) THEN "TypeError"
    ELSE IF NumLt(p.maxtries, 1) THEN "ValueError"
    ELSE IF ~ IsInstanceIntFloat(p.delay) THEN "TypeError"
    ELSE IF NumLt(p.delay, 0) THEN "ValueError"
    ELSE IF ~ IsInstanceIntFloat(p.jitterfactor) THEN "TypeError"
    ELSE IF NumLt(p.jitterfactor, 0) \/ NumGt(p.jitterfactor, 1) THEN "ValueError"
    ELSE IF ~ IsInstanceBool(p.backoff) THEN "TypeError"
    ELSE IF ~ IsInstanceIntFloat(p.boexpbase) THEN "TypeError"
    ELSE IF Truthy(p.backoff) /\ NumLt(p.boexpbase, 1) THEN "ValueError"
    ELSE IF ~ IsInstanceBool(p.borandom) THEN "TypeError"
    ELSE "ok"

\* the checks at the head of retry(...), in their order: the first that fails
\* raises
RetryValidate(p) ==
    IF ~ Callable(p.validator) THEN "TypeError"
    ELSE IF ~ IsInstanceInt(p.maxtries) THEN "TypeError"
    ELSE IF NumLt(p.maxtries, 1) THEN "ValueError"
    ELSE IF ~ IsInstanceIntFloat(p.delay) THEN "TypeError"
    ELSE IF NumLt(p.delay, 0) THEN "ValueError"
    ELSE IF ~ IsInstanceIntFloat(p.jitterfactor) THEN "TypeError"
    ELSE IF NumLt(p.jitterfactor, 0) \/ NumGt(p.jitterfactor, 1) THEN "ValueError"
    ELSE IF ~ IsInstanceBool(p.backoff) THEN "TypeError"
    ELSE IF ~ IsInstanceIntFloat(p.boexpbase) THEN "TypeError"
    ELSE IF NumLt(p.boexpbase, 1) THEN "ValueError"
    ELSE IF ~ IsInstanceBool(p.borandom) THEN "TypeError"
    ELSE "ok"

\* if not delay: jitterfactor = 0; backoff = False
NormalizeDelay(p) ==
    IF ~ Truthy(p.delay)
    THEN [p EXCEPT !.jitterfactor = PyInt(0), !.backoff = PyBool(FALSE)]
    ELSE p
\* a normalisation that keeps the boexpbase it was given
NormalizeBackoffKeep(p) == p
\* if not backoff: boexpbase = 1
NormalizeBackoff(p) ==
    IF ~ Truthy(p.backoff) THEN [p EXCEPT !.boexpbase = PyInt(1)] ELSE p
\* if boexpbase == 1: borandom = False
NormalizeRandom(p) ==
    IF NumEq(p.boexpbase, 1) THEN [p EXCEPT !.borandom = PyBool(FALSE)] ELSE p
\* the three, in the code's order
RetryNormalize(p) == NormalizeRandom(NormalizeBackoff(NormalizeDelay(p)))

\* an exponent that starts at 1
ExponentNext(p, fc) ==
    IF Truthy(p.borandom) THEN 0..fc ELSE {fc}
\* exponent(failcount): random.choice(range(failcount)) or failcount - 1
Exponent(p, fc) ==
    IF Truthy(p.borandom) THEN 0..(fc - 1) ELSE {fc - 1}

\* get_waiting_time, under @jitter(jitterfactor=jitterfactor): the unjittered
\* value for one exponent
UnjitteredWait(p, e) ==
    NumMul(NumPow(Num(p.boexpbase.n, p.boexpbase.d), e), Num(p.delay.n, p.delay.d))
\* the values get_waiting_time(boexpbase, failcount, delay) can return
GetWaitingTime(p, fc) ==
    UNION { GetJittered(UnjitteredWait(p, e), p.jitterfactor) : e \in Exponent(p, fc) }

\* a message that leaves the keyword arguments out
ExhaustedMessageNoKwargs(name, args, kwargs, fc) ==
    name \o "("
         \o Join([i \in 1..Len(args) |-> Str(args[i])])
         \o ") failed " \o ToString(fc) \o " times, returning None."

\* the text of MaxTriesExhaustedError
ExhaustedMessage(name, args, kwargs, fc) ==
    name \o "("
         \o Join([i \in 1..Len(args) |-> Str(args[i])])
         \o Join([i \in 1..Len(kwargs) |-> kwargs[i][1] \o "=" \o Repr(kwargs[i][2])])
         \o ") failed " \o ToString(fc) \o " times, returning None."

\* the values given to retry(...) for each parameter
ValidatorArgs == {PyFunction, PyNone}
MaxTriesArgs ==
    { PyInt(k) : k \in 0..MaxTries } \cup {PyFloat(2, 1), PyBool(TRUE), PyStr("2")}
DelayArgs == {PyInt(0), PyInt(1), PyFloat(1, 2), PyInt(-1), PyStr("1")}
JitterFactorArgs ==
    {PyInt(0), PyFloat(1, 2), PyInt(1), PyInt(2), PyFloat(-1, 2), PyNone}
BackoffArgs == {PyBool(TRUE), PyBool(FALSE), PyInt(1)}
BoExpBaseArgs == {PyInt(0), PyFloat(1, 2), PyInt(1), PyInt(2), PyStr("2")}
BoRandomArgs == {PyBool(TRUE), PyBool(FALSE), PyInt(0)}

\* what the wrapped function returns to the retry wrapper
RetryResults == {"r1", "r2"}

NoCall == [args |-> <<>>, kwargs |-> <<>>]
Outcome(kind, value, message) == [kind |-> kind, value |-> value, message |-> message]
NoOutcome == Outcome("none", "", "")
\* an entry of rlog: func called ("call", with what it returned or "raise"),
\* validator called ("validate", with its verdict), sleep called ("sleep")
Event(ev, res, ok) == [ev |-> ev, res |-> res, ok |-> ok]

\* retry(...): the checks, then the normalisation
RetryConstruct ==
    /\ rpc = "new"
    /\ IF RetryValidate(policy) = "ok"
       THEN /\ eff' = RetryNormalize(policy)
            /\ rpc' = "ready"
            /\ UNCHANGED routcome
       ELSE /\ rpc' = "config_error"
            /\ routcome' = Outcome("config_error", RetryValidate(policy), "")
            /\ UNCHANGED eff
    /\ UNCHANGED <<policy, rcall, remaining_tries, failcount, time_to_wait, rlog, execs, cvars, jvars, fvars, pvars, wvars, avars>>

\* a loop that sleeps after every rejected result that is not the last
\* a loop that also sleeps after the last attempt
ShouldSleepAfterLast(delay, tries) == Truthy(delay)
ShouldSleepAnyDelay(delay, tries) == tries # 0
\* if delay and remaining_tries
ShouldSleep(delay, tries) == Truthy(delay) /\ tries # 0

\* a wrapper that keeps remaining_tries across calls
RetryExecuteStale(call) ==
    /\ rpc \in {"ready", "returned", "raised"}
    /\ execs < MaxExecs
    /\ execs' = execs + 1
    /\ rcall' = call
    /\ remaining_tries' = IF execs = 0 THEN eff.maxtries.n ELSE remaining_tries
    /\ failcount' = 0
    /\ time_to_wait' = Num(0, 1)
    /\ rlog' = <<>>
    /\ routcome' = NoOutcome
    /\ rpc' = "attempting"
    /\ UNCHANGED <<policy, eff, cvars, jvars, fvars, pvars, wvars, avars>>

\* wrapper(*args, **kwargs) is entered
RetryExecute(call) ==
    /\ rpc \in {"ready", "returned", "raised"}
    /\ execs < MaxExecs
    /\ execs' = execs + 1
    /\ rcall' = call
    /\ remaining_tries' = eff.maxtries.n
    /\ failcount' = 0
    /\ time_to_wait' = Num(0, 1)
    /\ rlog' = <<>>
    /\ routcome' = NoOutcome
    /\ rpc' = "attempting"
    /\ UNCHANGED <<policy, eff, cvars, jvars, fvars, pvars, wvars, avars>>

\* a loop that takes an error of func for a rejected result
RetryAttemptSwallow(raises, res, ok) ==
    /\ rpc = "attempting"
    /\ IF ok /\ ~ raises
       THEN /\ rlog' = rlog \o <<Event("call", res, FALSE), Event("validate", res, ok)>>
            /\ failcount' = 0
            /\ rpc' = "returned"
            /\ routcome' = Outcome("returned", res, "")
            /\ UNCHANGED remaining_tries
       ELSE /\ rlog' = IF raises
                       THEN Append(rlog, Event("call", "raise", FALSE))
                       ELSE rlog \o <<Event("call", res, FALSE), Event("validate", res, ok)>>
            /\ failcount' = failcount + 1
            /\ remaining_tries' = remaining_tries - 1
            /\ IF ShouldSleep(eff.delay, remaining_tries - 1)
               THEN rpc' = "waiting" /\ UNCHANGED routcome
               ELSE IF remaining_tries - 1 # 0
               THEN rpc' = "attempting" /\ UNCHANGED routcome
               ELSE /\ rpc' = "raised"
                    /\ routcome' = Outcome("exhausted", "MaxTriesExhaustedError",
                          ExhaustedMessage(FuncName, rcall.args, rcall.kwargs, failcount + 1))
    /\ UNCHANGED <<policy, eff, rcall, time_to_wait, execs, cvars, jvars, fvars, pvars, wvars, avars>>

\* one pass of the loop body up to the sleep: func is called and raises
\* (raises = TRUE) or returns res, on which the validator says ok
RetryAttempt(raises, res, ok) ==
    /\ rpc = "attempting"
    /\ IF raises
       THEN /\ rlog' = Append(rlog, Event("call", "raise", FALSE))
            /\ rpc' = "raised"
            /\ routcome' = Outcome("op_error", "OperationError", "")
            /\ UNCHANGED <<remaining_tries, failcount>>
       ELSE IF ok
       THEN /\ rlog' = rlog \o <<Event("call", res, FALSE), Event("validate", res, ok)>>
            /\ failcount' = 0
            /\ rpc' = "returned"
            /\ routcome' = Outcome("returned", res, "")
            /\ UNCHANGED remaining_tries
       ELSE /\ rlog' = rlog \o <<Event("call", res, FALSE), Event("validate", res, ok)>>
            /\ failcount' = failcount + 1
            /\ remaining_tries' = remaining_tries - 1
            /\ IF ShouldSleep(eff.delay, remaining_tries - 1)
               THEN rpc' = "waiting" /\ UNCHANGED routcome
               ELSE IF remaining_tries - 1 # 0
               THEN rpc' = "attempting" /\ UNCHANGED routcome
               ELSE /\ rpc' = "raised"
                    /\ routcome' = Outcome("exhausted", "MaxTriesExhaustedError",
                          ExhaustedMessage(FuncName, rcall.args, rcall.kwargs, failcount + 1))
    /\ UNCHANGED <<policy, eff, rcall, time_to_wait, execs, cvars, jvars, fvars, pvars, wvars, avars>>

\* time_to_wait = get_waiting_time(boexpbase, failcount, delay); sleep(time_to_wait)
RetrySleep ==
    /\ rpc = "waiting"
    /\ \E w \in GetWaitingTime(eff, failcount) :
       IF w.n < 0
       THEN /\ rpc' = "raised"
            /\ routcome' = Outcome("sleep_error", "ValueError", "")
            /\ UNCHANGED <<rlog, time_to_wait>>
       ELSE /\ rpc' = "attempting"
            /\ time_to_wait' = w
            /\ rlog' = Append(rlog, Event("sleep", "", FALSE))
            /\ UNCHANGED routcome
    /\ UNCHANGED <<policy, eff, rcall, remaining_tries, failcount, execs, cvars, jvars, fvars, pvars, wvars, avars>>

----------------------------------------------------------------------------
(* jitterargs *)

\* the parameters of the decorated function, in the order of its signature;
\* each has a default, so that any of them may be left out of a call
Params == <<"a", "b", "c">>

\* an argument as func receives it: its value, and the jitterfactor
\* get_jittered was called with for it (PyNone when it was passed on as given)
Passed(value, jf) == [value |-> value, jfactor |-> jf]

\* jf >= 0 and isinstance(arg, (int, float))
IsJittered(arg, jf) == ~ NumLt(jf, 0) /\ IsInstanceIntFloat(arg)

\* what one argument may become: get_jittered(arg, jf) when the test
\* lets it, the argument itself otherwise
JitteredArg(arg, jf) ==
    IF IsJittered(arg, jf)
    THEN { Passed(v, jf) : v \in GetJittered(Num(arg.n, arg.d), Num(jf.n, jf.d)) }
    ELSE { Passed(arg, PyNone) }

\* what the arguments vals[i..] may become when the k-th of vals goes with
\* the k-th of jfs; an argument past the end of jfs is passed on as given
RECURSIVE JitteredAll(_, _, _)
JitteredAll(vals, jfs, i) ==
    IF i > Len(vals) THEN {<<>>}
    ELSE { <<x>> \o rest :
             x \in (IF i <= Len(jfs) THEN JitteredArg(vals[i], jfs[i])
                    ELSE { Passed(vals[i], PyNone) }),
             rest \in JitteredAll(vals, jfs, i + 1) }

\* seq[n:]
SliceFrom(seq, n) == IF n >= Len(seq) THEN <<>> ELSE SubSeq(seq, n + 1, Len(seq))

\* seq[:n]
SliceTo(seq, n) == IF n >= Len(seq) THEN seq ELSE SubSeq(seq, 1, n)

\* jitterargs.wrapper: jitterfactors[:len(args)] goes over args by position,
\* jitterfactors[len(args):] is zipped with kwargs in the order of the call,
\* and func is called with the result
JitterArgsCall ==
    /\ apc = "new"
    /\ newargs' \in JitteredAll(aargs, SliceTo(jitterfactors, Len(aargs)), 1)
    /\ \E vals \in JitteredAll([i \in DOMAIN akwargs |-> akwargs[i][2]],
                              SliceFrom(jitterfactors, Len(aargs)), 1) :
          newkwargs' = [i \in DOMAIN akwargs |-> <<akwargs[i][1], vals[i]>>]
    /\ apc' = "called"
    /\ UNCHANGED <<jitterfactors, aargs, akwargs, cvars, rvars, jvars, fvars, pvars, wvars>>

(* Cache wrappers of several processes on one cachedir: cache.wrapper *)
(* statement by statement                                              *)

\* the processes, each with a wrapper of its own around the same function
Procs == {"A", "B"}

\* what an interrupted write leaves in a file
Partial == [fmt |-> "partial", data |-> ""]

\* pd.read_csv / pickle.load raise on a file that is not there or that an
\* interrupted write left incomplete
LoadRaises(stor, cachefilename) ==
    cachefilename \notin DOMAIN stor \/ stor[cachefilename] = Partial

\* the locals of a call of the wrapper
Locals(fp, result, dt, cachefilename, stale, removed) ==
    [fp |-> fp, result |-> result, dt |-> dt, cachefilename |-> cachefilename,
     stale |-> stale, removed |-> removed]

NoLocals == Locals("", "", 0, NoFile, <<>>, {})

\* what a call of a wrapper did
WrapperRecord(kind, invoked, result, file, removed) ==
    [kind |-> kind, invoked |-> invoked, result |-> result, file |-> file, removed |-> removed]

NoWrapperRecord == WrapperRecord("", 0, "", NoFile, {})

\* the calls made on the wrappers: all of one signature
SharedCalls == { [args |-> <<PyInt(1)>>, kwargs |-> <<>>] }
SharedResults == {None, "obj"}

MaxSharedCalls == 3

\* the calls made so far on all wrappers
TotalCalls == wcalls["A"] + wcalls["B"]

\* cache(...)(func) in process p: get_cache_inventory scans the directory as
\* it is then
WrapperBuild(p) ==
    /\ wpc[p] = "unbuilt"
    /\ \E order \in Orderings(DOMAIN storage) :
          inventories' = [inventories EXCEPT ![p] = GetCacheInventory(order, FuncName)]
    /\ wpc' = [wpc EXCEPT ![p] = "idle"]
    /\ UNCHANGED <<wreachback, wcall, wlast, creator, wcalls, cvars, rvars, jvars, fvars, pvars, avars>>

\* a lookup that takes an entry whose file cannot be loaded for a miss
WrapperLookupFallback(p, call, res) ==
    LET fp == GetFuncSigHashed(FuncName, call.args, call.kwargs)
        inv == inventories[p]
        cutoff == GetDt(wreachback[p], now)
    IN  /\ wpc[p] = "idle"
        /\ TotalCalls < MaxSharedCalls
        /\ wcalls' = [wcalls EXCEPT ![p] = @ + 1]
        /\ IF /\ fp \in DOMAIN inv
              /\ IsFresh(inv[fp], cutoff)
              /\ ~ LoadRaises(storage, MostRecent(inv[fp]).cachefilename)
           THEN LET cachefilename == MostRecent(inv[fp]).cachefilename
                IN  /\ wlast' = [wlast EXCEPT ![p] =
                          IF LoadRaises(storage, cachefilename)
                          THEN WrapperRecord("load_error", 0, "Error", cachefilename, {})
                          ELSE WrapperRecord("hit", 0,
                                          FromCache(storage, cachefilename), cachefilename, {})]
                    /\ UNCHANGED <<wpc, wcall>>
           ELSE IF IsNotNone(res)
           THEN /\ wpc' = [wpc EXCEPT ![p] = "to_cache"]
                /\ wcall' = [wcall EXCEPT ![p] = Locals(fp, res, 0, NoFile, <<>>, {})]
                /\ UNCHANGED wlast
           ELSE /\ wlast' = [wlast EXCEPT ![p] =
                                WrapperRecord("none", 1, None, NoFile, {})]
                /\ UNCHANGED <<wpc, wcall>>
        /\ UNCHANGED <<inventories, wreachback, creator, cvars, rvars, jvars, fvars, pvars, avars>>

\* the lookup of a call in process p: a hit loads the newest entry; otherwise
\* func is invoked and returns res
WrapperLookup(p, call, res) ==
    LET fp == GetFuncSigHashed(FuncName, call.args, call.kwargs)
        inv == inventories[p]
        cutoff == GetDt(wreachback[p], now)
    IN  /\ wpc[p] = "idle"
        /\ TotalCalls < MaxSharedCalls
        /\ wcalls' = [wcalls EXCEPT ![p] = @ + 1]
        /\ IF fp \in DOMAIN inv /\ IsFresh(inv[fp], cutoff)
           THEN LET cachefilename == MostRecent(inv[fp]).cachefilename
                IN  /\ wlast' = [wlast EXCEPT ![p] =
                          IF LoadRaises(storage, cachefilename)
                          THEN WrapperRecord("load_error", 0, "Error", cachefilename, {})
                          ELSE WrapperRecord("hit", 0,
                                          FromCache(storage, cachefilename), cachefilename, {})]
                    /\ UNCHANGED <<wpc, wcall>>
           ELSE IF IsNotNone(res)
           THEN /\ wpc' = [wpc EXCEPT ![p] = "to_cache"]
                /\ wcall' = [wcall EXCEPT ![p] = Locals(fp, res, 0, NoFile, <<>>, {})]
                /\ UNCHANGED wlast
           ELSE /\ wlast' = [wlast EXCEPT ![p] =
                                WrapperRecord("none", 1, None, NoFile, {})]
                /\ UNCHANGED <<wpc, wcall>>
        /\ UNCHANGED <<inventories, wreachback, creator, cvars, rvars, jvars, fvars, pvars, avars>>

\* a wrapper that deletes the stale files first and writes the new file after
WrapperToCacheDeleteFirst(p, outcome) ==
    LET c == wcall[p]
        inv == inventories[p]
        stale == IF ~ hoard /\ c.fp \in DOMAIN inv
                 THEN {inv[c.fp][i].cachefilename : i \in DOMAIN inv[c.fp]}
                 ELSE {}
        kept == [f \in DOMAIN storage \ stale |-> storage[f]]
        w == ToCache(kept, c.result, CACHE_DIR, FuncName, c.fp, now)
    IN  /\ wpc[p] = "to_cache"
        /\ IF outcome = "ok"
           THEN /\ storage' = w.storage
                /\ wcall' = [wcall EXCEPT ![p] =
                                Locals(c.fp, c.result, w.dt, w.cachefilename, <<>>, stale)]
                /\ wpc' = [wpc EXCEPT ![p] = "append"]
                /\ UNCHANGED wlast
           ELSE /\ storage' = kept
                /\ wlast' = [wlast EXCEPT ![p] =
                                WrapperRecord("write_error", 1, "Error", w.cachefilename, stale)]
                /\ wpc' = [wpc EXCEPT ![p] = "idle"]
                /\ wcall' = [wcall EXCEPT ![p] = NoLocals]
        /\ UNCHANGED <<creator, inventories, wreachback, wcalls, hoard, reachback, cache_inventory,
                       now, built, last, ncalls, rvars, jvars, fvars, pvars, avars>>

\* to_cache in process p: the write succeeds ("ok"), fails before the file is
\* opened ("unopened"), or fails after it was opened for writing ("partial");
\* on success stale_files is read from the inventory of p
WrapperToCache(p, outcome) ==
    LET c == wcall[p]
        inv == inventories[p]
        w == ToCache(storage, c.result, CACHE_DIR, FuncName, c.fp, now)
        stale == IF ~ hoard /\ c.fp \in DOMAIN inv
                 THEN [i \in DOMAIN inv[c.fp] |-> inv[c.fp][i].cachefilename]
                 ELSE <<>>
    IN  /\ wpc[p] = "to_cache"
        /\ IF outcome = "ok"
           THEN /\ storage' = w.storage
                /\ creator' = [f \in DOMAIN creator \cup {w.cachefilename} |->
                                  IF f = w.cachefilename THEN p ELSE creator[f]]
                /\ wcall' = [wcall EXCEPT ![p] =
                                Locals(c.fp, c.result, w.dt, w.cachefilename, stale, {})]
                /\ wpc' = [wpc EXCEPT ![p] = IF stale = <<>> THEN "append" ELSE "remove"]
                /\ UNCHANGED wlast
           ELSE /\ storage' = (IF outcome = "partial"
                               THEN [f \in DOMAIN storage \cup {w.cachefilename} |->
                                        IF f = w.cachefilename THEN Partial ELSE storage[f]]
                               ELSE storage)
                /\ wlast' = [wlast EXCEPT ![p] =
                                WrapperRecord("write_error", 1, "Error",
                                           w.cachefilename, {})]
                /\ wpc' = [wpc EXCEPT ![p] = "idle"]
                /\ wcall' = [wcall EXCEPT ![p] = NoLocals]
                /\ UNCHANGED creator
        /\ UNCHANGED <<inventories, wreachback, wcalls, hoard, reachback, cache_inventory,
                       now, built, last, ncalls, rvars, jvars, fvars, pvars, avars>>

\* a delete-stale loop that spares a file the inventory of another process
\* lists
WrapperRemoveCoordinated(p) ==
    LET c == wcall[p]
        file == Head(c.stale)
        listed == \E q \in Procs \ {p} : \E k \in DOMAIN inventories[q] :
                     \E i \in DOMAIN inventories[q][k] : inventories[q][k][i].cachefilename = file
    IN  /\ wpc[p] = "remove"
        /\ storage' = (IF listed THEN storage ELSE [f \in DOMAIN storage \ {file} |-> storage[f]])
        /\ wcall' = [wcall EXCEPT ![p] =
                        Locals(c.fp, c.result, c.dt, c.cachefilename, Tail(c.stale), c.removed)]
        /\ wpc' = [wpc EXCEPT ![p] = IF Tail(c.stale) = <<>> THEN "append" ELSE "remove"]
        /\ UNCHANGED <<wlast, inventories, wreachback, creator, wcalls, hoard, reachback,
                       cache_inventory, now, built, last, ncalls, rvars, jvars, fvars, pvars, avars>>

\* one turn of `for file in stale_files: os.remove(file)' in process p;
\* os.remove raises on a file that is not there
WrapperRemove(p) ==
    LET c == wcall[p]
        file == Head(c.stale)
    IN  /\ wpc[p] = "remove"
        /\ IF file \in DOMAIN storage
           THEN /\ storage' = [f \in DOMAIN storage \ {file} |-> storage[f]]
                /\ wcall' = [wcall EXCEPT ![p] =
                                Locals(c.fp, c.result, c.dt, c.cachefilename, Tail(c.stale),
                                       c.removed \cup {file})]
                /\ wpc' = [wpc EXCEPT ![p] = IF Tail(c.stale) = <<>> THEN "append" ELSE "remove"]
                /\ UNCHANGED wlast
           ELSE /\ wlast' = [wlast EXCEPT ![p] =
                                WrapperRecord("remove_error", 1, "FileNotFoundError",
                                           c.cachefilename, c.removed)]
                /\ wpc' = [wpc EXCEPT ![p] = "idle"]
                /\ wcall' = [wcall EXCEPT ![p] = NoLocals]
                /\ UNCHANGED storage
        /\ UNCHANGED <<inventories, wreachback, creator, wcalls, hoard, reachback,
                       cache_inventory, now, built, last, ncalls, rvars, jvars, fvars, pvars, avars>>

\* the inventory of process p takes the new entry, and the call returns
WrapperAppend(p) ==
    LET c == wcall[p]
        inv == inventories[p]
        entry == [dt |-> c.dt, cachefilename |-> c.cachefilename]
    IN  /\ wpc[p] = "append"
        /\ inventories' = [inventories EXCEPT ![p] =
                              IF hoard THEN GetAppend(inv, c.fp, entry)
                              ELSE GetAppend(SetEmpty(inv, c.fp), c.fp, entry)]
        /\ wlast' = [wlast EXCEPT ![p] =
                        WrapperRecord("write", 1, c.result, c.cachefilename, c.removed)]
        /\ wpc' = [wpc EXCEPT ![p] = "idle"]
        /\ wcall' = [wcall EXCEPT ![p] = NoLocals]
        /\ UNCHANGED <<wreachback, creator, wcalls, cvars, rvars, jvars, fvars, pvars, avars>>

(* Reachback parser: get_dt on the text of a reachback specification *)

\* the character of s at position i, "" beyond the end
CharAt(s, i) == IF i >= 1 /\ i <= Len(s) THEN SubSeq(s, i, i) ELSE ""

\* \d
IsDigit(c) == c \in {"0", "1", "2", "3", "4", "5", "6", "7", "8", "9"}

\* \D: any one character that is not a digit
IsNonDigit(c) == c # "" /\ ~ IsDigit(c)

\* the length of the longest run of at most max digits of s that starts at i
RECURSIVE DigitRun(_, _, _)
DigitRun(s, i, max) ==
    IF max = 0 \/ ~ IsDigit(CharAt(s, i)) THEN 0 ELSE 1 + DigitRun(s, i + 1, max - 1)

\* the length of the run of blanks of s that starts at i
RECURSIVE BlankRun(_, _)
BlankRun(s, i) == IF CharAt(s, i) = " " THEN 1 + BlankRun(s, i + 1) ELSE 0

\* $ : the end of the string, or just before a newline that ends it
AtEnd(s, i) == i = Len(s) + 1 \/ (i = Len(s) /\ CharAt(s, i) = "\n")

DigitValue(c) ==
    CASE c = "0" -> 0 [] c = "1" -> 1 [] c = "2" -> 2 [] c = "3" -> 3 [] c = "4" -> 4
      [] c = "5" -> 5 [] c = "6" -> 6 [] c = "7" -> 7 [] c = "8" -> 8 [] c = "9" -> 9

\* int(x) of a string of digits
RECURSIVE ParseInt(_)
ParseInt(x) ==
    IF Len(x) = 0 THEN 0
    ELSE 10 * ParseInt(SubSeq(x, 1, Len(x) - 1)) + DigitValue(CharAt(x, Len(x)))

\* the groups (?:\D(\d{1,2}))? ... $ of datetime_re from position i on, with
\* `left' optional groups still to try; a group that did not take part is ""
\* (None); <<"nomatch">> when the rest of the string cannot be matched.  A
\* shorter run of digits never helps: what follows it is then a digit, which
\* neither \D nor $ accepts, so the greedy choice is the only one.
RECURSIVE DatetimeTail(_, _, _)
DatetimeTail(s, i, left) ==
    IF left > 0 /\ IsNonDigit(CharAt(s, i)) /\ DigitRun(s, i + 1, 2) > 0
    THEN LET n == DigitRun(s, i + 1, 2)
             rest == DatetimeTail(s, i + 1 + n, left - 1)
         IN  IF rest = <<"nomatch">> THEN rest
             ELSE <<SubSeq(s, i + 1, i + n)>> \o rest
    ELSE IF AtEnd(s, i) THEN [k \in 1..left |-> ""]
    ELSE <<"nomatch">>

\* re.match(datetime_re, reachback).groups(), <<"nomatch">> for no match
DatetimeMatch(s) ==
    LET n == DigitRun(s, 1, 4)
    IN  IF n = 0 THEN <<"nomatch">>
        ELSE LET rest == DatetimeTail(s, n + 1, 5)
             IN  IF rest = <<"nomatch">> THEN rest
                 ELSE <<SubSeq(s, 1, n)>> \o rest

\* the alternatives of customtimedelta_re, in its order
Units == <<"year", "month", "week", "day", "hour", "minute", "second">>

\* the unit s has at position i: 0 for none, else its index in Units
UnitAt(s, i) ==
    LET hits == {u \in 1..Len(Units) : /\ i + Len(Units[u]) - 1 <= Len(s)
                                        /\ SubSeq(s, i, i + Len(Units[u]) - 1) = Units[u]}
    IN  IF hits = {} THEN 0 ELSE CHOOSE u \in hits : \A v \in hits : u <= v

\* one match of customtimedelta_re that begins at i: <<value, unit, end>>,
\* or <<>> when the pattern does not match there
TimedeltaMatchAt(s, i) ==
    LET n == DigitRun(s, i, Len(s))
        j == i + n + BlankRun(s, i + n)
        u == UnitAt(s, j)
    IN  IF n = 0 \/ u = 0 THEN <<>>
        ELSE LET e == j + Len(Units[u])
             IN  <<SubSeq(s, i, i + n - 1), Units[u], IF CharAt(s, e) = "s" THEN e + 1 ELSE e>>

\* re.findall(customtimedelta_re, reachback): the matches from the left, none
\* overlapping, as pairs <<value, unit>>
RECURSIVE TimedeltaFindall(_, _)
TimedeltaFindall(s, i) ==
    IF i > Len(s) THEN <<>>
    ELSE LET m == TimedeltaMatchAt(s, i)
         IN  IF m = <<>> THEN TimedeltaFindall(s, i + 1)
             ELSE <<<<m[1], m[2]>>>> \o TimedeltaFindall(s, m[3])

\* {f'{k}s': int(v) for v, k in matches ...}.get(unit + 's', 0): the last
\* match of a unit wins
RECURSIVE UnitArg(_, _)
UnitArg(matches, unit) ==
    IF matches = <<>> THEN 0
    ELSE LET m == matches[Len(matches)]
         IN  IF m[2] = unit THEN ParseInt(m[1])
             ELSE UnitArg(SubSeq(matches, 1, Len(matches) - 1), unit)

\* a datetime
Datetime(year, month, day, hour, minute, second, tick) ==
    [year |-> year, month |-> month, day |-> day, hour |-> hour, minute |-> minute,
     second |-> second, tick |-> tick]

IsLeap(y) == y % 4 = 0 /\ (y % 100 # 0 \/ y % 400 = 0)

DaysInMonth(y, m) ==
    IF m = 2 THEN (IF IsLeap(y) THEN 29 ELSE 28)
    ELSE IF m \in {4, 6, 9, 11} THEN 30 ELSE 31

\* the days of the years before year y
DaysBeforeYear(y) == (y - 1) * 365 + (y - 1) \div 4 - (y - 1) \div 100 + (y - 1) \div 400

RECURSIVE DaysBeforeMonth(_, _)
DaysBeforeMonth(y, m) == IF m = 1 THEN 0 ELSE DaysBeforeMonth(y, m - 1) + DaysInMonth(y, m - 1)

\* date.toordinal(): 1 for 0001-01-01
ToOrdinal(y, m, d) == DaysBeforeYear(y) + DaysBeforeMonth(y, m) + d

\* date.fromordinal(n), n >= 1: a year has 365 or 366 days, so the year is
\* one of the few between n / 366 and n / 365 + 1
FromOrdinal(n) ==
    LET y == CHOOSE yy \in (n \div 366)..(n \div 365 + 1) :
                 yy >= 1 /\ DaysBeforeYear(yy) < n /\ n <= DaysBeforeYear(yy + 1)
        r == n - DaysBeforeYear(y)
        m == CHOOSE mm \in 1..12 : DaysBeforeMonth(y, mm) < r /\ r <= DaysBeforeMonth(y, mm) + DaysInMonth(y, mm)
    IN  <<y, m, r - DaysBeforeMonth(y, m)>>

\* timedelta(weeks=..., days=..., hours=..., minutes=..., seconds=...) as
\* <<days, seconds>>
Timedelta(matches) ==
    <<7 * UnitArg(matches, "week") + UnitArg(matches, "day"),
      3600 * UnitArg(matches, "hour") + 60 * UnitArg(matches, "minute") + UnitArg(matches, "second")>>

\* the ordinal of the day of dt - timedelta; below 1 the subtraction raises
\* OverflowError
OrdinalMinus(dt, td) ==
    ToOrdinal(dt.year, dt.month, dt.day) - td[1]
        + ((3600 * dt.hour + 60 * dt.minute + dt.second - td[2]) \div 86400)

\* dt - timedelta
DatetimeMinus(dt, td) ==
    LET secs == 3600 * dt.hour + 60 * dt.minute + dt.second - td[2]
        ymd == FromOrdinal(OrdinalMinus(dt, td))
        sod == secs % 86400
    IN  Datetime(ymd[1], ymd[2], ymd[3], sod \div 3600, (sod % 3600) \div 60, sod % 60, dt.tick)

\* datetime(*dt_args) raises ValueError for a field out of range
ValidDatetimeArgs(a) ==
    /\ a[1] >= 1 /\ a[1] <= 9999
    /\ a[2] >= 1 /\ a[2] <= 12
    /\ a[3] >= 1 /\ a[3] <= DaysInMonth(a[1], a[2])
    /\ a[4] >= 0 /\ a[4] <= 23
    /\ a[5] >= 0 /\ a[5] <= 59
    /\ a[6] >= 0 /\ a[6] <= 59

\* one borrow at most
BorrowMonthsOnce(year, month) ==
    IF month <= 0 THEN <<year - 1, month + 12>> ELSE <<year, month>>

\* while month <= 0: month += 12; year -= 1
RECURSIVE BorrowMonths(_, _)
BorrowMonths(year, month) ==
    IF month <= 0 THEN BorrowMonths(year - 1, month + 12) ELSE <<year, month>>

\* what get_dt returned or raised
ParseOutcome(kind, value) == [kind |-> kind, value |-> value]
NoParseOutcome == ParseOutcome("none", <<>>)

\* a default of 0 for every omitted field
GroupOrZero(x, default) == IF x # "" THEN ParseInt(x) ELSE 0

\* int(x) if x else 1 / int(x) if x else 0
GroupOr(x, default) == IF x # "" THEN ParseInt(x) ELSE default

\* dt_args of the first branch
AbsoluteArgs(groups) ==
    [k \in 1..3 |-> GroupOr(groups[k], 1)] \o [k \in 1..3 |-> GroupOr(groups[k + 3], 0)]

\* dt_args of the second branch
RelativeArgs(matches, nowdt) ==
    LET dt == DatetimeMinus(nowdt, Timedelta(matches))
        ym == BorrowMonths(dt.year - UnitArg(matches, "year"), dt.month - UnitArg(matches, "month"))
    IN  <<ym[1], ym[2], dt.day, dt.hour, dt.minute, dt.second>>

\* get_dt(reachback) at the time nowdt
GetDtText(s, nowdt) ==
    LET groups == DatetimeMatch(s)
        matches == TimedeltaFindall(s, 1)
        dt_args == IF groups # <<"nomatch">> THEN AbsoluteArgs(groups)
                   ELSE RelativeArgs(matches, nowdt)
    IN  IF groups = <<"nomatch">> /\ matches = <<>> THEN ParseOutcome("UnboundLocalError", <<>>)
        ELSE IF groups = <<"nomatch">> /\ OrdinalMinus(nowdt, Timedelta(matches)) < 1
        THEN ParseOutcome("OverflowError", <<>>)
        ELSE IF ~ ValidDatetimeArgs(dt_args) THEN ParseOutcome("ValueError", <<>>)
        ELSE ParseOutcome("datetime", Datetime(dt_args[1], dt_args[2], dt_args[3], dt_args[4],
                                               dt_args[5], dt_args[6], 0))

\* a call of get_dt
GetDtCall ==
    /\ ppc = "new"
    /\ presult' = GetDtText(preachback, pnow)
    /\ ppc' = "done"
    /\ UNCHANGED <<preachback, pnow, cvars, rvars, jvars, fvars, wvars, avars>>

(* Specifications *)

\* the retry variables while the cache is checked
RetryIdle ==
    /\ policy = Policy(PyFunction, PyInt(1), PyInt(0), PyInt(0), PyBool(FALSE), PyInt(1), PyBool(FALSE))
    /\ eff = policy
    /\ rpc = "new"
    /\ rcall = NoCall
    /\ remaining_tries = 0
    /\ failcount = 0
    /\ time_to_wait = Num(0, 1)
    /\ rlog = <<>>
    /\ routcome = NoOutcome
    /\ execs = 0

\* the jitter variables while something else is checked
JitterIdle ==
    /\ jval = PyInt(0)
    /\ jfactor = PyInt(0)
    /\ jpc = "new"
    /\ jdraw = Num(0, 1)
    /\ jdraws = 0
    /\ jresult = NoJitterOutcome

\* the fingerprint variables while something else is checked
FingerprintIdle ==
    /\ fcalls = <<>>
    /\ fhashed = <<>>

\* the parser variables while something else is checked
ParseIdle ==
    /\ preachback = ""
    /\ pnow = Datetime(2000, 1, 1, 0, 0, 0, 0)
    /\ ppc = "new"
    /\ presult = NoParseOutcome

\* the wrappers of the processes while something else is checked
WrappersIdle ==
    /\ inventories = [p \in Procs |-> <<>>]
    /\ wreachback = [p \in Procs |-> DefaultReachback]
    /\ wpc = [p \in Procs |-> "unbuilt"]
    /\ wcall = [p \in Procs |-> NoLocals]
    /\ wlast = [p \in Procs |-> NoWrapperRecord]
    /\ creator = <<>>
    /\ wcalls = [p \in Procs |-> 0]

\* the jitterargs variables while something else is checked
JitterArgsIdle ==
    /\ jitterfactors = <<>>
    /\ aargs = <<>>
    /\ akwargs = <<>>
    /\ apc = "new"
    /\ newargs = <<>>
    /\ newkwargs = <<>>

\* the files the startup scan may find: two entries of one fingerprint, one of
\* them in a subdirectory, and files that do not match the pattern
ScannedFingerprint == GetFuncSigHashed(FuncName, <<PyInt(1)>>, <<>>)
InitFileCandidates ==
    { File(CACHE_DIR, FuncName, ScannedFingerprint, 0, "pkl"),
      File(CACHE_DIR, FuncName, ScannedFingerprint, 1, "pkl"),
      File(CACHE_DIR \o "/sub", FuncName, ScannedFingerprint, 1, "csv"),
      File(CACHE_DIR, "g", ScannedFingerprint, 1, "pkl") }
\* what an earlier run left in a file
OldContent(f) == IF f.ext = "csv" THEN ToCsv("df") ELSE PickleDump("old")

\* the reachback specifications given to cache(...)
Reachbacks ==
    { DefaultReachback, Reachback("abs", MaxTime),
      Reachback("rel", 0), Reachback("rel", 1) }

\* the cache variables while the retry engine is checked
CacheIdle ==
    /\ hoard = FALSE
    /\ reachback = DefaultReachback
    /\ storage = <<>>
    /\ cache_inventory = <<>>
    /\ built = <<>>
    /\ now = TicksPerSec
    /\ last = NoRecord
    /\ ncalls = 0

\* cache(...)(func): the inventory is built by the startup scan
CacheInit ==
    /\ hoard \in BOOLEAN
    /\ reachback \in Reachbacks
    /\ now = TicksPerSec
    /\ \E S \in SUBSET InitFileCandidates :
          /\ Cardinality(S) <= MaxInitFiles
          /\ storage = [f \in S |-> OldContent(f)]
          /\ \E order \in Orderings(S) :
                cache_inventory = GetCacheInventory(order, FuncName)
    /\ built = cache_inventory
    /\ last = NoRecord
    /\ ncalls = 0
    /\ RetryIdle
    /\ JitterIdle
    /\ FingerprintIdle
    /\ ParseIdle
    /\ WrappersIdle
    /\ JitterArgsIdle

CacheNext ==
    \/ \E call \in CacheCalls, res \in Results : CacheWrapper(call, res)
    \/ Tick

SpecCache == CacheInit /\ [][CacheNext]_vars

\* cache(reachback=...)(func) with a reachback that matches neither pattern:
\* decorator() does not look at reachback
MalformedReachbacks == {Reachback("malformed", 0)}
CacheInitMalformed ==
    /\ hoard \in BOOLEAN
    /\ reachback \in MalformedReachbacks
    /\ now = TicksPerSec
    /\ \E S \in SUBSET InitFileCandidates :
          /\ Cardinality(S) <= MaxInitFiles
          /\ storage = [f \in S |-> OldContent(f)]
          /\ \E order \in Orderings(S) :
                cache_inventory = GetCacheInventory(order, FuncName)
    /\ built = cache_inventory
    /\ last = NoRecord
    /\ ncalls = 0
    /\ RetryIdle
    /\ JitterIdle
    /\ FingerprintIdle
    /\ ParseIdle
    /\ WrappersIdle
    /\ JitterArgsIdle

SpecCacheMalformed == CacheInitMalformed /\ [][CacheNext]_vars

RetryInit ==
    /\ policy \in { Policy(v, m, dl, j, b, x, r) :
                      v \in ValidatorArgs, m \in MaxTriesArgs, dl \in DelayArgs,
                      j \in JitterFactorArgs, b \in BackoffArgs, x \in BoExpBaseArgs,
                      r \in BoRandomArgs }
    /\ eff = policy
    /\ rpc = "new"
    /\ rcall = NoCall
    /\ remaining_tries = 0
    /\ failcount = 0
    /\ time_to_wait = Num(0, 1)
    /\ rlog = <<>>
    /\ routcome = NoOutcome
    /\ execs = 0
    /\ CacheIdle
    /\ JitterIdle
    /\ FingerprintIdle
    /\ ParseIdle
    /\ WrappersIdle
    /\ JitterArgsIdle

RetryNext ==
    \/ RetryConstruct
    \/ \E call \in Calls : RetryExecute(call)
    \/ \E raises \in BOOLEAN, res \in RetryResults, ok \in BOOLEAN : RetryAttempt(raises, res, ok)
    \/ RetrySleep

SpecRetry == RetryInit /\ [][RetryNext]_vars

\* get_jittered(val, jitterfactor) for every pair of arguments
JitterInit ==
    /\ jval \in JitterVals
    /\ jfactor \in JitterFactors
    /\ jpc = "new"
    /\ jdraw = Num(0, 1)
    /\ jdraws = 0
    /\ jresult = NoJitterOutcome
    /\ CacheIdle
    /\ RetryIdle
    /\ FingerprintIdle
    /\ ParseIdle
    /\ WrappersIdle
    /\ JitterArgsIdle

JitterNext ==
    \/ JitterCall
    \/ JitterDraw

SpecJitter == JitterInit /\ [][JitterNext]_vars

\* two calls, of one process or of two; the first is a call of "f" (the
\* names are interchangeable)
FingerprintInit ==
    /\ \E first \in { c \in Signatures : c.name = "f" }, second \in Signatures :
          fcalls = <<first, second>>
    /\ fhashed = <<>>
    /\ CacheIdle
    /\ RetryIdle
    /\ JitterIdle
    /\ ParseIdle
    /\ WrappersIdle
    /\ JitterArgsIdle

FingerprintNext == FingerprintCompute

SpecFingerprint == FingerprintInit /\ [][FingerprintNext]_vars

\* the pieces reachback strings are put together from
MaxPieces == 3
Pieces == {"1", "2", "-", " ", ",", "x", "1 day", "2 months", "1 year"}

RECURSIVE Concats(_)
Concats(n) ==
    IF n = 0 THEN {""} ELSE {""} \cup {p \o s : p \in Pieces, s \in Concats(n - 1)}

\* reachback strings of the documentation and of the kinds get_dt tells apart
ReachbackExamples ==
    {"2000-12", "2000-12-31 23:59:59", "1999/2/28T7", "1-01-01", "2000-13", "2000-2-30",
     "2000-12\n", "12345", "2000-123", "2000--12", "2000-12-", "2000-1-1 1:1:1:1",
     "3 days and garbage", "1 week, 2 days", "5 fortnights", "1 hour 30 minutes 15 seconds",
     "14 months", "2 years 3 months", "1 day 2 days", "999999 days", "1month", "1  week",
     "90 seconds", "36 hours", "14 months, 36 hours", "1 month", "2001 years"}

ReachbackStrings == Concats(MaxPieces) \cup ReachbackExamples

ParseNows ==
    {Datetime(2000, 3, 31, 0, 0, 10, 1), Datetime(2000, 1, 1, 0, 0, 0, 0),
     Datetime(2001, 3, 1, 12, 30, 45, 0)}

ParseInit ==
    /\ preachback \in ReachbackStrings
    /\ pnow \in ParseNows
    /\ ppc = "new"
    /\ presult = NoParseOutcome
    /\ CacheIdle
    /\ RetryIdle
    /\ JitterIdle
    /\ FingerprintIdle
    /\ WrappersIdle
    /\ JitterArgsIdle

ParseNext == GetDtCall

SpecParse == ParseInit /\ [][ParseNext]_vars

\* the reachback specifications of the wrappers of the processes
SharedReachbacks == {DefaultReachback, Reachback("rel", 0)}

\* no wrapper is built yet; the directory is empty or holds one file of an
\* earlier run
WrappersInit ==
    /\ hoard \in BOOLEAN
    /\ reachback = DefaultReachback
    /\ now = TicksPerSec
    /\ \E S \in SUBSET {File(CACHE_DIR, FuncName, ScannedFingerprint, 0, "pkl")} :
          storage = [f \in S |-> OldContent(f)]
    /\ cache_inventory = <<>>
    /\ built = <<>>
    /\ last = NoRecord
    /\ ncalls = 0
    /\ inventories = [p \in Procs |-> <<>>]
    /\ wreachback \in [Procs -> SharedReachbacks]
    /\ wpc = [p \in Procs |-> "unbuilt"]
    /\ wcall = [p \in Procs |-> NoLocals]
    /\ wlast = [p \in Procs |-> NoWrapperRecord]
    /\ creator = <<>>
    /\ wcalls = [p \in Procs |-> 0]
    /\ RetryIdle
    /\ JitterIdle
    /\ FingerprintIdle
    /\ ParseIdle
    /\ JitterArgsIdle

WrappersNext ==
    \/ \E p \in Procs : WrapperBuild(p)
    \/ \E p \in Procs, call \in SharedCalls, res \in SharedResults : WrapperLookup(p, call, res)
    \/ \E p \in Procs, outcome \in {"ok", "unopened", "partial"} : WrapperToCache(p, outcome)
    \/ \E p \in Procs : WrapperRemove(p)
    \/ \E p \in Procs : WrapperAppend(p)
    \/ Tick

SpecWrappers == WrappersInit /\ [][WrappersNext]_vars

\* the jitterfactors given to jitterargs(...): tuples of up to MaxFactors
MaxFactors == 3
FactorValues == {PyInt(0), PyInt(1), PyInt(2), PyInt(-1)}
FactorTuples == UNION { [1..n -> FactorValues] : n \in 0..MaxFactors }

\* the values passed for a parameter
JitterArgValues == {PyInt(10), PyStr("teststring")}

\* the calls: the first parameters by position, and any of the others by
\* keyword, each once, in any order
JitterArgsCalls ==
    { c \in [args : UNION { [1..n -> JitterArgValues] : n \in 0..Len(Params) },
             kwargs : UNION { [1..n -> { <<Params[k], v>> : k \in DOMAIN Params, v \in JitterArgValues }]
                              : n \in 0..Len(Params) }] :
        /\ Len(c.args) + Len(c.kwargs) <= Len(Params)
        /\ \A i \in DOMAIN c.kwargs :
              /\ \E k \in (Len(c.args) + 1)..Len(Params) : c.kwargs[i][1] = Params[k]
              /\ \A j \in DOMAIN c.kwargs : i # j => c.kwargs[i][1] # c.kwargs[j][1] }

JitterArgsInit ==
    /\ jitterfactors \in FactorTuples
    /\ \E c \in JitterArgsCalls : aargs = c.args /\ akwargs = c.kwargs
    /\ apc = "new"
    /\ newargs = <<>>
    /\ newkwargs = <<>>
    /\ CacheIdle
    /\ RetryIdle
    /\ JitterIdle
    /\ FingerprintIdle
    /\ ParseIdle
    /\ WrappersIdle

JitterArgsNext == JitterArgsCall

SpecJitterArgs == JitterArgsInit /\ [][JitterArgsNext]_vars

----------------------------------------------------------------------------
(* Claims about the result cache, checked under SpecCache *)

\* a step that is a call on the cache wrapper
IsCacheCall == ncalls' = ncalls + 1
\* the greatest createdAt among the entries of a fingerprint
NewestDt(entries) ==
    CHOOSE m \in { entries[i].dt : i \in DOMAIN entries } :
        \A i \in DOMAIN entries : entries[i].dt <= m
\* the storage files of this operation's cache for fingerprint fp
StorageFilesOf(stor, fp) ==
    { f \in DOMAIN stor : MatchesCacheFileName(f, FuncName) /\ f.fp = fp }
\* the files the inventory records for fingerprint fp
InventoryFilesOf(inv, fp) ==
    IF fp \in DOMAIN inv THEN { inv[fp][i].cachefilename : i \in DOMAIN inv[fp] } ELSE {}

\* C1: in either retention mode, for a fingerprint with no entry when the
\* wrapper was built, a call that follows a call with the same arguments that
\* wrote its result, with a cutoff not later than that write, does not invoke
\* the operation and returns the value the first call persisted.
C1_RoundTrip ==
    [][ ( /\ IsCacheCall
          /\ last.kind = "write"
          /\ last.fp \notin DOMAIN built
          /\ last'.fp = last.fp
          /\ GetDt(reachback, now) <= last.t )
        => ( /\ last'.invoked = 0
             /\ last'.kind = "hit"
             /\ last'.result = storage[last.file].data ) ]_vars

\* C1 restricted to single-version retention
C1_RoundTripSingleVersion ==
    [][ ( /\ ~ hoard
          /\ IsCacheCall
          /\ last.kind = "write"
          /\ last.fp \notin DOMAIN built
          /\ last'.fp = last.fp
          /\ GetDt(reachback, now) <= last.t )
        => ( /\ last'.invoked = 0
             /\ last'.kind = "hit"
             /\ last'.result = storage[last.file].data ) ]_vars

\* C2: a call is served from the cache iff its fingerprint is in the
\* inventory and the greatest createdAt of its entries is >= the cutoff
\* computed at that call; the value returned is then the one loaded from a
\* newest entry; in every other case the operation is invoked exactly once.
C2_ServedIffFresh ==
    [][ IsCacheCall =>
        LET fp == last'.fp
            fresh == /\ fp \in DOMAIN cache_inventory
                     /\ NewestDt(cache_inventory[fp]) >= GetDt(reachback, now)
        IN  /\ (last'.kind = "hit") <=> fresh
            /\ fresh =>
                  /\ last'.invoked = 0
                  /\ \E i \in DOMAIN cache_inventory[fp] :
                        /\ cache_inventory[fp][i].dt = NewestDt(cache_inventory[fp])
                        /\ last'.file = cache_inventory[fp][i].cachefilename
                        /\ last'.result = storage[last'.file].data
            /\ ~ fresh => last'.invoked = 1 ]_vars

\* C2 witness: a hit on an entry that was the newer of two recorded entries
C2_Witness ==
    /\ last.kind = "hit"
    /\ last.fp \in DOMAIN cache_inventory
    /\ \E i \in DOMAIN cache_inventory[last.fp] :
          cache_inventory[last.fp][i].dt < NewestDt(cache_inventory[last.fp])

\* C3: under single-version retention, after every cache write for a
\* fingerprint exactly one storage file of that fingerprint remains, it is the
\* file just written, and the inventory holds exactly one entry for the
\* fingerprint, which refers to that file.
C3_SingleVersionOneFile ==
    (~ hoard /\ last.kind = "write") =>
        /\ StorageFilesOf(storage, last.fp) = {last.file}
        /\ last.fp \in DOMAIN cache_inventory
        /\ Len(cache_inventory[last.fp]) = 1
        /\ cache_inventory[last.fp][1].cachefilename = last.file

\* C4: after construction and after every completed call the inventory equals
\* what a fresh scan would produce: its (fingerprint, path) pairs are exactly
\* the storage files that match the operation's file name pattern.
C4_InventoryIsScan ==
    UNION { { <<fp, f>> : f \in InventoryFilesOf(cache_inventory, fp) } :
                fp \in DOMAIN cache_inventory }
    = { <<f.fp, f>> : f \in { g \in DOMAIN storage : MatchesCacheFileName(g, FuncName) } }

\* C5: under hoard mode no call deletes a storage file, and after two cache
\* writes for one fingerprint both persisted results are on storage as
\* separate files and both are recorded in the inventory.
C5_HoardKeepsBoth ==
    [][ (hoard /\ IsCacheCall) =>
        /\ DOMAIN storage \subseteq DOMAIN storage'
        /\ (last.kind = "write" /\ last'.kind = "write" /\ last'.fp = last.fp) =>
              /\ last.file # last'.file
              /\ {last.file, last'.file} \subseteq DOMAIN storage'
              /\ storage'[last.file].data = last.result
              /\ storage'[last'.file].data = last'.result
              /\ {last.file, last'.file} \subseteq InventoryFilesOf(cache_inventory', last.fp) ]_vars

----------------------------------------------------------------------------
(* Claims on the retry engine, checked under SpecRetry *)

\* the positions of rlog holding an event of one kind
EventsOf(log, ev) == { i \in 1..Len(log) : log[i].ev = ev }
Accepted(log) == { i \in EventsOf(log, "validate") : log[i].ok }
Rejected(log) == { i \in EventsOf(log, "validate") : ~ log[i].ok }
OperationRaised(log) == { i \in EventsOf(log, "call") : log[i].res = "raise" }
\* maxAttempts as given at construction
MaxAttempts == policy.maxtries.n
\* a wrapper was built and has been called
Executing == rpc \in {"attempting", "waiting", "returned", "raised"}
\* C6: in every execute call, whatever earlier calls did, the counters start
\* fresh; the operation is invoked at most maxAttempts times; the first
\* accepted result ends the call, which returns exactly that result after
\* exactly that many invocations; the call goes on while fewer than
\* maxAttempts results were rejected, and when maxAttempts results were
\* rejected it has failed with the exhaustion error after exactly maxAttempts
\* invocations.
C6_KthResultOrExhaustion ==
    [][ /\ (execs' = execs + 1) => (remaining_tries' = MaxAttempts /\ failcount' = 0)
        /\ Executing' =>
             LET invoked == Cardinality(EventsOf(rlog', "call"))
                 rejected == Cardinality(Rejected(rlog'))
             IN  /\ invoked <= MaxAttempts
                 /\ \A i \in Accepted(rlog') :
                       /\ i = Len(rlog')
                       /\ rlog'[i - 1].ev = "call" /\ rlog'[i - 1].res = rlog'[i].res
                       /\ rpc' = "returned"
                       /\ routcome' = Outcome("returned", rlog'[i].res, "")
                       /\ invoked = rejected + 1
                 /\ rpc' = "returned" => Accepted(rlog') # {}
                 /\ rejected = MaxAttempts <=>
                       (rpc' = "raised" /\ routcome'.kind = "exhausted")
                 /\ routcome'.kind = "exhausted" => invoked = MaxAttempts
                 /\ rpc' \in {"attempting", "waiting"} =>
                       (invoked = rejected /\ rejected < MaxAttempts) ]_vars
\* a second execute call returns the result of its third invocation
C6_Witness ==
    /\ execs = 2 /\ rpc = "returned" /\ MaxAttempts = 3
    /\ Cardinality(EventsOf(rlog, "call")) = 3
    /\ routcome.value = rlog[Len(rlog)].res

\* C7: an error raised by the operation ends the execute call with that
\* error at once: the raising invocation is the last thing the call did (no
\* validator call, no wait, no further invocation), and the call's outcome is
\* the operation's error, not exhaustion, whatever attempts remain.
C7_OperationErrorPropagates ==
    Executing =>
      /\ \A i \in OperationRaised(rlog) :
            /\ i = Len(rlog)
            /\ rpc = "raised"
            /\ routcome = Outcome("op_error", "OperationError", "")
      /\ routcome.kind = "op_error" => OperationRaised(rlog) # {}
\* the operation raises on its second attempt, after a wait, with an attempt
\* still to go
C7_Witness ==
    /\ rpc = "raised" /\ routcome.kind = "op_error"
    /\ OperationRaised(rlog) = {Len(rlog)}
    /\ Cardinality(EventsOf(rlog, "call")) = 2
    /\ EventsOf(rlog, "sleep") # {}
    /\ remaining_tries >= 1

\* C8: when maxAttempts results were rejected, the call has not returned a
\* value: its outcome is the exhaustion error, whose text holds the
\* operation's name, each positional argument, each keyword argument with
\* its value, and a fail count equal to maxAttempts.
C8_ExhaustionError ==
    (Executing /\ Cardinality(Rejected(rlog)) = MaxAttempts) =>
      /\ rpc = "raised"
      /\ routcome.kind = "exhausted"
      /\ routcome.value = "MaxTriesExhaustedError"
      /\ routcome.value \notin RetryResults
      /\ SubSeq(routcome.message, 1, Len(FuncName) + 1) = FuncName \o "("
      /\ \A i \in 1..Len(rcall.args) : Contains(routcome.message, Str(rcall.args[i]))
      /\ \A i \in 1..Len(rcall.kwargs) :
            Contains(routcome.message, rcall.kwargs[i][1] \o "=" \o Repr(rcall.kwargs[i][2]))
      /\ Contains(routcome.message, " failed " \o ToString(MaxAttempts) \o " times")
\* three rejected results of a call with two positional and one keyword
\* argument
C8_Witness ==
    /\ routcome.kind = "exhausted" /\ MaxAttempts = 3
    /\ Len(rcall.args) = 2 /\ Len(rcall.kwargs) = 1
    /\ Cardinality(Rejected(rlog)) = 3

\* the constraints on the policy fields, one field at a time (a number is an
\* int or a float, and a bool counts as an int, as isinstance has it)
ValidatorViolates(p) == ~ Callable(p.validator)
MaxTriesViolates(p) == ~ IsInstanceInt(p.maxtries) \/ p.maxtries.n < p.maxtries.d
DelayViolates(p) == ~ IsInstanceIntFloat(p.delay) \/ p.delay.n < 0
JitterFactorViolates(p) ==
    \/ ~ IsInstanceIntFloat(p.jitterfactor)
    \/ p.jitterfactor.n < 0
    \/ p.jitterfactor.n > p.jitterfactor.d
BoExpBaseViolates(p) == ~ IsInstanceIntFloat(p.boexpbase) \/ p.boexpbase.n < p.boexpbase.d
FlagViolates(p) == ~ IsInstanceBool(p.backoff) \/ ~ IsInstanceBool(p.borandom)
Violates(p) ==
    \/ ValidatorViolates(p) \/ MaxTriesViolates(p) \/ DelayViolates(p)
    \/ JitterFactorViolates(p) \/ BoExpBaseViolates(p) \/ FlagViolates(p)

C10_EffectivePolicy ==
    Executing \/ rpc = "ready" =>
      /\ eff.delay = policy.delay /\ eff.maxtries = policy.maxtries
      /\ NumEq(eff.delay, 0) => (NumEq(eff.jitterfactor, 0) /\ eff.backoff = PyBool(FALSE))
      /\ eff.backoff = PyBool(FALSE) => NumEq(eff.boexpbase, 1)
      /\ NumEq(eff.boexpbase, 1) => eff.borandom = PyBool(FALSE)
      /\ eff.backoff = PyBool(FALSE) =>
            /\ \A fc \in 1..MaxAttempts : \A e \in Exponent(eff, fc) :
                  NumSame(UnjitteredWait(eff, e), Num(eff.delay.n, eff.delay.d))
            /\ NumEq(eff.jitterfactor, 0) =>
                  (EventsOf(rlog, "sleep") # {} =>
                     NumSame(time_to_wait, Num(policy.delay.n, policy.delay.d)))
\* two waits of a wrapper built with backoff off, boexpbase 2 and borandom on
C10_Witness ==
    /\ Executing
    /\ policy.backoff = PyBool(FALSE) /\ NumEq(policy.boexpbase, 2)
    /\ policy.borandom = PyBool(TRUE) /\ NumEq(policy.jitterfactor, 0)
    /\ Cardinality(EventsOf(rlog, "sleep")) = 2

\* C11: a wrapper built with delay = 0 never waits between attempts, whatever
\* jitterfactor, backoff, boexpbase and borandom it was given and however
\* many results were rejected.
C11_NoWaitWithoutDelay ==
    (NumEq(policy.delay, 0) /\ (Executing \/ rpc = "ready")) =>
      /\ rpc # "waiting"
      /\ EventsOf(rlog, "sleep") = {}
      /\ time_to_wait = Num(0, 1)
\* three rejected results of a wrapper built with delay = 0, jitterfactor 1,
\* backoff on, boexpbase 2 and borandom on
C11_Witness ==
    /\ NumEq(policy.delay, 0) /\ NumEq(policy.jitterfactor, 1)
    /\ policy.backoff = PyBool(TRUE) /\ NumEq(policy.boexpbase, 2)
    /\ policy.borandom = PyBool(TRUE)
    /\ Cardinality(Rejected(rlog)) = 3
    /\ routcome.kind = "exhausted"

\* the unjittered wait after the n-th rejected result, for exponent e, from
\* the policy in effect
WaitBase(e) ==
    NumMul(Num(eff.delay.n, eff.delay.d), NumPow(Num(eff.boexpbase.n, eff.boexpbase.d), e))
\* the exponents allowed after the n-th rejected result
AllowedExponents(n) == IF eff.borandom = PyBool(TRUE) THEN 0..(n - 1) ELSE {n - 1}

\* C12: with delay > 0 the wait made after the n-th rejected result of a
\* call (n < maxAttempts) is a jittered delay * boexpbase^e, with e = n - 1
\* when borandom is off and e in 0..n-1 when it is on; with borandom off the
\* unjittered waits do not decrease with n and the first is delay.
C12_WaitAfterNthRejection ==
    [][ (rpc = "waiting" /\ rpc' # "waiting") =>
          LET n == Cardinality(Rejected(rlog))
          IN  /\ NumGt(eff.delay, 0)
              /\ n >= 1 /\ n < MaxAttempts
              /\ rpc' = "attempting"
              /\ Cardinality(EventsOf(rlog', "sleep")) = n
              /\ \E e \in AllowedExponents(n) :
                    \E x \in GetJittered(WaitBase(e), eff.jitterfactor) :
                       NumSame(time_to_wait', x)
              /\ eff.borandom = PyBool(FALSE) =>
                    /\ NumSame(WaitBase(0), Num(eff.delay.n, eff.delay.d))
                    /\ n >= 2 => ~ NumLess(WaitBase(n - 1), WaitBase(n - 2))
                    /\ NumEq(eff.jitterfactor, 0) => NumSame(time_to_wait', WaitBase(n - 1)) ]_vars
\* the second wait of a call, with backoff on, boexpbase 2, no jitter: twice
\* the delay
C12_Witness ==
    /\ rpc = "attempting"
    /\ Cardinality(EventsOf(rlog, "sleep")) = 2
    /\ eff.backoff = PyBool(TRUE) /\ NumEq(eff.boexpbase, 2)
    /\ eff.borandom = PyBool(FALSE) /\ NumEq(eff.jitterfactor, 0)
    /\ NumSame(time_to_wait, Num(2 * eff.delay.n, eff.delay.d))

----------------------------------------------------------------------------
(* Claims on jitter, checked under SpecJitter *)

\* |val| * jitterfactor, the crop bound
CropBound == Num(Abs(jval.n) * jfactor.n, jval.d * jfactor.d)
BaseValue == Num(jval.n, jval.d)
\* both arguments are numbers, val is not 0 and jitterfactor is above 0
Jitterable ==
    /\ IsInstanceIntFloat(jval) /\ IsInstanceIntFloat(jfactor)
    /\ jval.n # 0 /\ jfactor.n > 0
Magnitude(x) == Num(Abs(x.n), x.d)

\* C13: for jitterfactor > 0 and val # 0 the value returned lies within
\* val -/+ |val| * jitterfactor; it is val plus a draw of magnitude below
\* |val| * jitterfactor, and a draw of that magnitude or more is thrown away
\* and followed by a new draw, never returned and never moved to the bound.
C13_JitterWithinCropBound ==
    [][ Jitterable =>
          /\ jpc' \in {"sampling", "returned"}
          /\ jpc' = "returned" =>
                /\ jresult'.kind = "value"
                /\ ~ NumLess(jresult'.value, NumAdd(BaseValue, Num(-CropBound.n, CropBound.d)))
                /\ ~ NumLess(NumAdd(BaseValue, CropBound), jresult'.value)
                /\ NumSame(jresult'.value, NumAdd(BaseValue, jdraw'))
                /\ NumLess(Magnitude(jdraw'), CropBound)
          /\ (jdraws' = jdraws + 1 /\ ~ NumLess(Magnitude(jdraw'), CropBound)) =>
                (jpc' = "sampling" /\ jresult' = NoJitterOutcome) ]_vars
\* a value returned on the third draw, off the base value, with
\* jitterfactor above 1
C13_Witness ==
    /\ Jitterable /\ jpc = "returned" /\ jdraws = 3
    /\ jdraw.n # 0 /\ NumGt(jfactor, 1)
    /\ ~ NumSame(jresult.value, BaseValue)

\* C14: with jitterfactor 0 a numeric val comes back unchanged, and a val of
\* 0 comes back as 0 whatever jitterfactor is; no draw is made.
C14_JitterIdentityCases ==
    jpc # "new" =>
      /\ (IsInstanceIntFloat(jval) /\ IsInstanceIntFloat(jfactor) /\ NumEq(jfactor, 0)) =>
            /\ jpc = "returned" /\ jresult.kind = "value" /\ jdraws = 0
            /\ NumSame(jresult.value, BaseValue)
      /\ (IsInstanceIntFloat(jval) /\ NumEq(jval, 0)) =>
            /\ jpc = "returned" /\ jresult.kind = "value" /\ jdraws = 0
            /\ NumSame(jresult.value, Num(0, 1))
\* 1/2 with jitterfactor 0 came back as 1/2
C14_Witness ==
    /\ jpc = "returned" /\ jval = PyFloat(1, 2) /\ jfactor = PyInt(0)
    /\ NumSame(jresult.value, Num(1, 2))

\* C15: get_jittered raises, and returns no value, whenever jitterfactor is
\* negative or one of the arguments is not a number, for every val, 0
\* included.
C15_JitterRejectsInvalid ==
    (jpc # "new" /\ (\/ ~ IsInstanceIntFloat(jval)
                     \/ ~ IsInstanceIntFloat(jfactor)
                     \/ NumLt(jfactor, 0))) =>
      /\ jpc = "raised"
      /\ jresult.kind \in {"TypeError", "ValueError"}

----------------------------------------------------------------------------
(* Claims on the fingerprint, checked under SpecFingerprint *)

\* C16: the fingerprint depends on nothing but the name, the positional
\* arguments in their order and the keyword arguments in their order: two
\* calls equal in all three get the same fingerprint, and two calls that
\* differ in the name, in an argument value, in the order of the positional
\* arguments or in the order of the keyword arguments get different ones
\* (the digest taken to be free of collisions).
C16_FingerprintOfSignature ==
    fhashed # <<>> =>
      /\ (fcalls[1] = fcalls[2]) <=> (fhashed[1] = fhashed[2])
      /\ \A i \in 1..2 :
            fhashed[i] = GetFuncSigHashed(fcalls[i].name, fcalls[i].args, fcalls[i].kwargs)
\* same name and positional arguments, the two keyword arguments in the
\* other order: different fingerprints
C16_Witness ==
    /\ fhashed # <<>>
    /\ fcalls[1].name = fcalls[2].name /\ fcalls[1].args = fcalls[2].args
    /\ Len(fcalls[1].args) = 2
    /\ Len(fcalls[1].kwargs) = 2 /\ Len(fcalls[2].kwargs) = 2
    /\ fcalls[1].kwargs[1] = fcalls[2].kwargs[2]
    /\ fcalls[1].kwargs[2] = fcalls[2].kwargs[1]
    /\ fhashed[1] # fhashed[2]

----------------------------------------------------------------------------
(* Further claims about the result cache, checked under SpecCache and, for *)
(* a malformed reachback, under SpecCacheMalformed                         *)

\* C17: a miss on which func returns None returns None and changes nothing:
\* no file is written, none is deleted (under single-version retention
\* with entries recorded for the fingerprint too) and the inventory stays
\* as it was.
C17_NoneChangesNothing ==
    [][ (IsCacheCall /\ last'.invoked = 1 /\ last'.result = None) =>
          /\ last'.kind = "none"
          /\ last'.file = NoFile /\ last'.removed = {}
          /\ storage' = storage
          /\ cache_inventory' = cache_inventory ]_vars
\* None on a miss under single-version retention, the fingerprint's stale
\* entries still recorded and their files still there
C17_Witness ==
    /\ ~ hoard /\ last.kind = "none" /\ last.result = None
    /\ last.fp \in DOMAIN cache_inventory
    /\ Len(cache_inventory[last.fp]) = 2
    /\ InventoryFilesOf(cache_inventory, last.fp) \subseteq DOMAIN storage

\* C18: a miss on which func returns an empty result that is not None
\* returns it uncached: no file is written for it and the inventory gets no
\* entry.
C18_EmptyResultUncached ==
    [][ (IsCacheCall /\ last'.invoked = 1 /\ last'.result = "empty") =>
          /\ last'.file = NoFile
          /\ storage' = storage
          /\ cache_inventory' = cache_inventory ]_vars

\* C19: with the default reachback every call whose fingerprint has an
\* entry in the inventory is a hit: func is not invoked and nothing is
\* written, whatever the time; a fingerprint once in the inventory stays in
\* it with at least one entry.
C19_DefaultReachbackAlwaysHits ==
    [][ reachback = DefaultReachback =>
          /\ (IsCacheCall /\ last'.fp \in DOMAIN cache_inventory) =>
                /\ last'.kind = "hit" /\ last'.invoked = 0
                /\ storage' = storage /\ cache_inventory' = cache_inventory
          /\ DOMAIN cache_inventory \subseteq DOMAIN cache_inventory'
          /\ \A fp \in DOMAIN cache_inventory' : Len(cache_inventory'[fp]) >= 1 ]_vars
\* a hit at the latest time, on a result this wrapper itself recorded
C19_Witness ==
    /\ reachback = DefaultReachback
    /\ last.kind = "hit" /\ last.t = MaxTime
    /\ last.fp \notin DOMAIN built
    /\ last.result # "old"

\* C20: no call on a wrapper built with a malformed reachback invokes func,
\* writes a file or returns normally: each ends in the error of the
\* reachback.
C20_MalformedReachbackSurfaces ==
    [][ (IsCacheCall /\ GetDtRaises(reachback)) =>
          /\ last'.kind = "reachback_error"
          /\ last'.invoked = 0
          /\ storage' = storage ]_vars

(* Claims on the reachback parser, checked under SpecParse *)

\* s from position i on is at most m more numeric fields, each led by one
\* character that is not a digit; a newline may end the string
RECURSIVE MoreFields(_, _, _)
MoreFields(s, i, m) ==
    \/ i = Len(s) + 1
    \/ i = Len(s) /\ CharAt(s, i) = "\n"
    \/ i = Len(s) /\ CharAt(s, i) = "\n"
    \/ /\ m > 0
       /\ IsNonDigit(CharAt(s, i))
       /\ DigitRun(s, i + 1, Len(s)) > 0
       /\ MoreFields(s, i + 1 + DigitRun(s, i + 1, Len(s)), m - 1)

\* an absolute partial date: 1 to 6 numeric fields separated by single
\* characters that are not digits
AbsoluteGrammar(s) ==
    /\ DigitRun(s, 1, Len(s)) > 0
    /\ MoreFields(s, 1 + DigitRun(s, 1, Len(s)), 5)

IsSeparator(c) == c \in {",", " ", "\n"}

RECURSIVE SeparatorRun(_, _)
SeparatorRun(s, i) == IF IsSeparator(CharAt(s, i)) THEN 1 + SeparatorRun(s, i + 1) ELSE 0

\* s from position i on is phrases `<integer> <unit>[s]' with commas or
\* white space between and around them, and nothing else; `some' tells that a
\* phrase came before
RECURSIVE OnlyPhrases(_, _, _)
OnlyPhrases(s, i, some) ==
    LET j == i + SeparatorRun(s, i)
        m == TimedeltaMatchAt(s, j)
    IN  IF j = Len(s) + 1 THEN some
        ELSE /\ some => j > i
             /\ m # <<>>
             /\ OnlyPhrases(s, m[3], TRUE)

\* a relative specification: only phrases
RelativeGrammar(s) == OnlyPhrases(s, 1, FALSE)

ParseDone == ppc = "done"

\* C21: for every string that matches neither grammar get_dt raises an error
\* and returns no timestamp; a string that only contains a phrase next to
\* other text is such a string.
C21_MalformedRejected ==
    (ParseDone /\ ~ AbsoluteGrammar(preachback) /\ ~ RelativeGrammar(preachback))
        => presult.kind # "datetime"

\* the numeric fields of an absolute specification from position i on, as
\* <<value, digits>> each
RECURSIVE FieldsFrom(_, _)
FieldsFrom(s, i) ==
    LET n == DigitRun(s, i, Len(s))
    IN  IF i > Len(s) \/ n = 0 THEN <<>>
        ELSE <<<<ParseInt(SubSeq(s, i, i + n - 1)), n>>>> \o FieldsFrom(s, i + n + 1)

\* year, month, day, hour, minute, second of the fields given, an omitted
\* month or day being 1 and an omitted hour, minute or second 0
FieldsWithDefaults(fields) ==
    [k \in 1..6 |-> IF k <= Len(fields) THEN fields[k][1] ELSE IF k <= 3 THEN 1 ELSE 0]

\* the year is written with at most 4 digits and the other fields with at
\* most 2, and the fields name an existing date and time
FieldsInRange(fields) ==
    /\ \A k \in 1..Len(fields) : fields[k][2] <= (IF k = 1 THEN 4 ELSE 2)
    /\ ValidDatetimeArgs(FieldsWithDefaults(fields))

\* C22: for an absolute specification of 1 to 6 numeric fields separated by
\* single non-digit characters, get_dt returns the timestamp of the fields
\* given, with an omitted month or day set to 1 and an omitted hour, minute
\* or second set to 0.
C22_AbsoluteFieldsWithDefaults ==
    (ParseDone /\ AbsoluteGrammar(preachback) /\ FieldsInRange(FieldsFrom(preachback, 1)))
        => LET f == FieldsWithDefaults(FieldsFrom(preachback, 1))
           IN  presult = ParseOutcome("datetime", Datetime(f[1], f[2], f[3], f[4], f[5], f[6], 0))

\* "2000-12" has yielded 2000-12-01T00:00:00
C22_Witness ==
    /\ ParseDone
    /\ preachback = "2000-12"
    /\ presult = ParseOutcome("datetime", Datetime(2000, 12, 1, 0, 0, 0, 0))

\* the seconds since midnight of a datetime
SecondOfDay(dt) == 3600 * dt.hour + 60 * dt.minute + dt.second

\* dt lies exactly td = <<days, seconds>> before nowdt, whole seconds counted
LiesBefore(dt, nowdt, td) ==
    (ToOrdinal(nowdt.year, nowdt.month, nowdt.day) - ToOrdinal(dt.year, dt.month, dt.day) - td[1]) * 86400
        = td[2] - (SecondOfDay(nowdt) - SecondOfDay(dt))

\* year and month of the month that lies `months' months before month m of
\* year y, by counting months from year 0: the month is in 1..12 by construction
MonthsBefore(y, m, months) ==
    LET total == 12 * y + (m - 1) - months
    IN  <<total \div 12, (total % 12) + 1>>

\* C23: for a relative specification get_dt first goes back from now by the
\* weeks, days, hours, minutes and seconds as one fixed duration, then goes
\* back by the years and months in the calendar, borrowing 12 months from the
\* year as often as needed; the day and the time of day of the intermediate
\* date are kept and the month of the result is in 1..12.  Where the date so
\* described does not exist no timestamp is returned.
C23_RelativeBorrowsMonths ==
    (ParseDone /\ RelativeGrammar(preachback) /\ ~ AbsoluteGrammar(preachback))
        => LET matches == TimedeltaFindall(preachback, 1)
               td == Timedelta(matches)
           IN  IF OrdinalMinus(pnow, td) < 1 THEN presult.kind = "OverflowError"
               ELSE LET inter == DatetimeMinus(pnow, td)
                        ym == MonthsBefore(inter.year, inter.month,
                                           12 * UnitArg(matches, "year") + UnitArg(matches, "month"))
                        target == <<ym[1], ym[2], inter.day, inter.hour, inter.minute, inter.second>>
                    IN  /\ LiesBefore(inter, pnow, td)
                        /\ IF ValidDatetimeArgs(target)
                           THEN /\ presult = ParseOutcome("datetime",
                                       Datetime(target[1], target[2], target[3], target[4], target[5], target[6], 0))
                                /\ presult.value.month \in 1..12
                           ELSE presult.kind = "ValueError"

\* 14 months and 36 hours before 12:30:45 on 1 March 2001: the duration
\* leads to 28 February, and two borrows to December 1999
C23_Witness ==
    /\ ParseDone
    /\ preachback = "14 months, 36 hours"
    /\ pnow = Datetime(2001, 3, 1, 12, 30, 45, 0)
    /\ presult = ParseOutcome("datetime", Datetime(1999, 12, 28, 0, 30, 45, 0))

(* Claims on wrappers of several processes, checked under SpecWrappers *)

\* the files the inventory of process p lists
ReferencedBy(p) ==
    UNION { {inventories[p][k][i].cachefilename : i \in DOMAIN inventories[p][k]} :
            k \in DOMAIN inventories[p] }

\* C24: nothing coordinates the wrappers of two processes on one directory:
\* a turn of the delete-stale loop of a process removes the file it is at
\* whenever the file is there, whichever process created it and whichever
\* inventory still lists it; so a file that B created and lists can be gone
\* when B next hits on it.
C24_DeleteIsUncoordinated ==
    [][\A p \in Procs :
          (wpc[p] = "remove" /\ (wpc'[p] # "remove" \/ wcall'[p] # wcall[p]))
              => LET file == Head(wcall[p].stale)
                 IN  file \in DOMAIN storage
                        => /\ file \notin DOMAIN storage'
                           /\ wpc'[p] \in {"remove", "append"}]_vars

\* under single-version retention A's delete-stale loop has removed a file
\* that B created and that B's inventory lists, and B's next hit failed to
\* load it
C24_Witness ==
    /\ ~ hoard
    /\ wlast["B"].kind = "load_error"
    /\ wlast["B"].file \in DOMAIN creator
    /\ creator[wlast["B"].file] = "B"
    /\ wlast["B"].file \in ReferencedBy("B")
    /\ wlast["A"].kind = "write"
    /\ wlast["B"].file \in wlast["A"].removed
    /\ wlast["B"].file \notin DOMAIN storage

(* Claims on jitterargs, checked under SpecJitterArgs *)

\* the index of parameter name in the signature of func
ParamIndex(name) == CHOOSE k \in DOMAIN Params : Params[k] = name

\* the parameters the call gives a value to
GivenParams == (1..Len(aargs)) \cup { ParamIndex(akwargs[i][1]) : i \in DOMAIN akwargs }

\* the value the call gives to the n-th parameter, and what func received
\* for it
GivenFor(n) ==
    IF n <= Len(aargs) THEN aargs[n]
    ELSE akwargs[CHOOSE i \in DOMAIN akwargs : akwargs[i][1] = Params[n]][2]
ReceivedFor(n) ==
    IF n <= Len(aargs) THEN newargs[n]
    ELSE newkwargs[CHOOSE i \in DOMAIN newkwargs : newkwargs[i][1] = Params[n]][2]

\* C25: the n-th jitterfactor is applied to the n-th parameter of func,
\* passed by position or by keyword, in whatever order the keywords are
\* written; a parameter past the end of jitterfactors, or one whose value is
\* not an int or a float, reaches func unchanged.
C25_NthFactorForNthArgument ==
    apc = "called" =>
        \A n \in GivenParams :
            IF n <= Len(jitterfactors) /\ IsInstanceIntFloat(GivenFor(n))
            THEN ~ NumLt(jitterfactors[n], 0) => ReceivedFor(n).jfactor = jitterfactors[n]
            ELSE ReceivedFor(n) = Passed(GivenFor(n), PyNone)

\* C26: on a miss with a result that is not None the new file is written
\* before any superseded file is deleted and before the inventory is
\* modified: neither the lookup nor to_cache deletes a file or touches an
\* inventory, a file is deleted only by a process that is past to_cache, and
\* an inventory changes only in the statement after the deletions.  When
\* to_cache fails the call ends there, with no file deleted and every
\* inventory as it was.
C26_WriteBeforeDeleteAndInventory ==
    [][\A p \in Procs :
          /\ (wpc[p] = "idle" /\ wpc'[p] = "to_cache")
                => storage' = storage /\ inventories' = inventories
          /\ (wpc[p] = "to_cache" /\ wpc'[p] # "to_cache")
                => /\ DOMAIN storage \subseteq DOMAIN storage'
                   /\ inventories' = inventories
                   /\ wpc'[p] # "idle" =>
                         /\ wcall'[p].cachefilename \in DOMAIN storage'
                         /\ storage'[wcall'[p].cachefilename] # Partial
                   /\ wpc'[p] = "idle" => wlast'[p].kind = "write_error"
          /\ (wpc[p] # "unbuilt" /\ inventories'[p] # inventories[p])
                => wpc[p] = "append" /\ wcall[p].cachefilename # NoFile
          /\ (DOMAIN storage \ DOMAIN storage' # {})
                => \E q \in Procs : wpc[q] = "remove" /\ wcall'[q] # wcall[q]
      ]_vars

\* under single-version retention a write has failed while the inventory of
\* the process listed a file of that fingerprint: the file is still there
C26_Witness ==
    \E p \in Procs :
        /\ ~ hoard
        /\ wlast[p].kind = "write_error"
        /\ wpc[p] = "idle"
        /\ wlast[p].file.fp \in DOMAIN inventories[p]
        /\ inventories[p][wlast[p].file.fp] # <<>>
        /\ \A i \in DOMAIN inventories[p][wlast[p].file.fp] :
              /\ inventories[p][wlast[p].file.fp][i].cachefilename \in DOMAIN storage
              /\ inventories[p][wlast[p].file.fp][i].cachefilename # wlast[p].file

(* Claims on hits of the result cache, checked under SpecCache *)

\* C27: a hit has no side effects: func is not invoked, no file is created or
\* deleted, also under single-version retention with several files recorded
\* for the fingerprint, and the inventory is unchanged.
C27_HitHasNoSideEffects ==
    [][(IsCacheCall /\ last'.kind = "hit")
          => /\ last'.invoked = 0
             /\ storage' = storage
             /\ cache_inventory' = cache_inventory]_vars

\* a hit under single-version retention on a fingerprint with two files
\* recorded, both still in storage
C27_Witness ==
    /\ ~ hoard
    /\ last.kind = "hit"
    /\ last.fp \in DOMAIN cache_inventory
    /\ Len(cache_inventory[last.fp]) = 2
    /\ Cardinality(InventoryFilesOf(cache_inventory, last.fp)) = 2
    /\ InventoryFilesOf(cache_inventory, last.fp) \subseteq DOMAIN storage

(* Further claims on wrappers of several processes, checked under *)
(* SpecWrappers                                                   *)

\* the newest entry of the fingerprint of the calls in the inventory of p is
\* fresh, but its file is missing or incomplete
LoadWouldFail(p) ==
    /\ wpc[p] = "idle"
    /\ ScannedFingerprint \in DOMAIN inventories[p]
    /\ IsFresh(inventories[p][ScannedFingerprint], GetDt(wreachback[p], now))
    /\ LoadRaises(storage, MostRecent(inventories[p][ScannedFingerprint]).cachefilename)

\* C28: when on a hit the recorded file cannot be loaded, missing or corrupt,
\* the error is raised to the caller of that call: func is not invoked in
\* its place, the load is not tried again, and the inventory and the
\* directory are left as they were.
C28_LoadErrorSurfaces ==
    [][\A p \in Procs :
          (LoadWouldFail(p) /\ wcalls'[p] = wcalls[p] + 1)
              => /\ wlast'[p].kind = "load_error"
                 /\ wlast'[p].result = "Error"
                 /\ wlast'[p].invoked = 0
                 /\ wlast'[p].file = MostRecent(inventories[p][ScannedFingerprint]).cachefilename
                 /\ wpc'[p] = "idle"
                 /\ storage' = storage
                 /\ inventories' = inventories]_vars

\* a hit failed on a file that is there but incomplete, and the file and the
\* entry are still there
C28_Witness ==
    \E p \in Procs :
        /\ wlast[p].kind = "load_error"
        /\ wlast[p].file \in DOMAIN storage
        /\ storage[wlast[p].file] = Partial
        /\ wlast[p].file \in ReferencedBy(p)

(* Further claims on the retry engine, checked under SpecRetry *)

\* C29: with delay > 0 the engine waits exactly once between two consecutive
\* invocations of the operation and at no other time: every invocation but
\* the first comes right after a wait, every wait comes right after a
\* rejected result and is followed by an invocation, none by the end of the
\* call; so an execute call that is over has waited once less than it has
\* invoked the operation: maxAttempts - 1 times on exhaustion.
C29_OneWaitBetweenInvocations ==
    (NumGt(policy.delay, 0) /\ Executing) =>
        LET calls == EventsOf(rlog, "call")
            sleeps == EventsOf(rlog, "sleep")
        IN  /\ \A i \in sleeps :
                  /\ i > 1 /\ i - 1 \in Rejected(rlog)
                  /\ IF i < Len(rlog) THEN i + 1 \in calls ELSE rpc = "attempting"
            /\ \A i \in calls : i > 1 => i - 1 \in sleeps
            /\ rpc = "waiting" => Len(rlog) \in Rejected(rlog) /\ remaining_tries > 0
            /\ rpc \in {"returned", "raised"} => Cardinality(sleeps) = Cardinality(calls) - 1
            /\ routcome.kind = "exhausted" => Cardinality(sleeps) = MaxAttempts - 1
            /\ routcome.kind = "returned" => Accepted(rlog) = {Len(rlog)}

\* an execute call of a wrapper with delay > 0 and maxAttempts = 3 has ended
\* in exhaustion after two waits
C29_Witness ==
    /\ NumGt(policy.delay, 0)
    /\ MaxAttempts = 3
    /\ routcome.kind = "exhausted"
    /\ Cardinality(EventsOf(rlog, "call")) = 3
    /\ Cardinality(EventsOf(rlog, "sleep")) = 2

(* Further claims on the result cache, checked under SpecCache *)

\* C30: in every reachable state of a wrapper each fingerprint that is a key
\* of the inventory has a list of entries that is not empty, so the newest
\* entry of a key can always be taken; after the startup scan and after any
\* calls, in both retention modes.
C30_InventoryListsNonEmpty ==
    \A fp \in DOMAIN cache_inventory :
        /\ Len(cache_inventory[fp]) >= 1
        /\ MostRecent(cache_inventory[fp]) \in {cache_inventory[fp][i] : i \in DOMAIN cache_inventory[fp]}

\* a single-version write has made a key of a fingerprint the startup scan
\* had not found (the key is set to the empty list and the entry appended),
\* next to a key the scan had made
C30_Witness ==
    /\ ~ hoard
    /\ last.kind = "write"
    /\ last.fp \notin DOMAIN built
    /\ last.fp \in DOMAIN cache_inventory
    /\ DOMAIN built # {}
    /\ Len(cache_inventory[last.fp]) = 1

(* Further claims on the retry engine, checked under SpecRetry *)

\* twice the largest unjittered wait of the fc-th failure under policy p
WaitCeiling(p, fc) ==
    NumMul(Num(2, 1),
           NumMul(Num(p.delay.n, p.delay.d),
                  NumPow(Num(p.boexpbase.n, p.boexpbase.d), fc - 1)))

\* C31: for an accepted policy with delay > 0 every wait handed to the sleep
\* is strictly positive and strictly below 2 * delay * boexpbase^(failcount - 1),
\* both for the boexpbase given and for the one in effect; the sleep is never
\* asked for a negative duration.
C31_WaitPositiveAndBounded ==
    [][ (rpc = "waiting" /\ rpc' # "waiting") =>
          /\ NumGt(policy.delay, 0)
          /\ failcount >= 1
          /\ rpc' = "attempting"
          /\ routcome'.kind # "sleep_error"
          /\ NumLess(Num(0, 1), time_to_wait')
          /\ NumLess(time_to_wait', WaitCeiling(eff, failcount))
          /\ NumLess(time_to_wait', WaitCeiling(policy, failcount)) ]_vars
\* the wait after the second failure under delay 1, boexpbase 2 and
\* jitterfactor 1 was jittered upwards to 3, below the ceiling of 4
C31_Witness ==
    /\ rpc = "attempting"
    /\ failcount = 2
    /\ NumEq(eff.delay, 1) /\ NumEq(eff.boexpbase, 2) /\ NumEq(eff.jitterfactor, 1)
    /\ Cardinality(EventsOf(rlog, "sleep")) = 2
    /\ NumSame(time_to_wait, Num(3, 1))
    /\ NumSame(WaitCeiling(eff, failcount), Num(4, 1))

(* Further claims on the reachback parser, checked under SpecParse *)

\* datetime a is not later than datetime b
DatetimeAtMost(a, b) ==
    LET oa == ToOrdinal(a.year, a.month, a.day)
        ob == ToOrdinal(b.year, b.month, b.day)
    IN  \/ oa < ob
        \/ oa = ob /\ SecondOfDay(a) < SecondOfDay(b)
        \/ oa = ob /\ SecondOfDay(a) = SecondOfDay(b) /\ a.tick <= b.tick

\* C32: for every string of the relative grammar and every current time
\* get_dt returns a datetime, never an error, and the datetime is not later
\* than the current time.
C32_RelativeAlwaysParses ==
    (ParseDone /\ RelativeGrammar(preachback) /\ ~ AbsoluteGrammar(preachback))
        => /\ presult.kind = "datetime"
           /\ DatetimeAtMost(presult.value, pnow)

(* Further claims on the cache wrappers of several processes, checked under
   SpecWrappers *)

\* C33: every file that the scan of a wrapper construction has registered
\* holds a completely persisted result: no inventory lists a file that a
\* failed or interrupted to_cache has left incomplete on storage.
C33_RegisteredFilesAreComplete ==
    \A p \in Procs :
        \A f \in ReferencedBy(p) :
            f \in DOMAIN storage => storage[f] # Partial

====
